---------------------------- MODULE Spec2Model ----------------------------
(***************************************************************************)
(* Order-book reconstructor of oxarchive (orderbook_reconstructor.py):     *)
(* a checkpoint plus price/size deltas replayed into sorted snapshots.     *)
(*                                                                         *)
(* Numbers.  Every float the model handles is a multiple of 0.25 of small  *)
(* magnitude, so Python's binary floating point represents it, and every   *)
(* sum, difference and halving of such values, exactly.  A float x is      *)
(* modelled by the integer 4*x ("quarters").  Wire strings are real        *)
(* strings: float() parses them digit by digit and str() prints them.      *)
(*                                                                         *)
(* Optional values.  Optional[str] fields hold a string or None, modelled  *)
(* by the string "None" (str() of a float never prints it).  An            *)
(* Optional[int] depth is modelled by a sequence: << >> is None and <<k>>  *)
(* is the integer k.                                                       *)
(***************************************************************************)
EXTENDS Integers, Sequences, FiniteSets, TLC

VARIABLES
    self,        \* the OrderBookReconstructor instance: its five fields
    ret,         \* the last completed public call: its name, arguments, result
    checkpoint,  \* the caller's checkpoint (bulk replay input)
    deltas,      \* the caller's delta collection, in the caller's order
    depth,       \* the depth argument of the bulk replay calls
    gen,         \* the generator object returned by iterate, if any
    pulls,       \* history: the snapshots pulled from gen so far, in order
    applied,     \* history: how many times gen has called apply_delta
    heap,        \* the objects allocated so far, by address (object graph only)
    held,        \* history: the snapshots a caller still holds (object graph only)
    peer,        \* a second OrderBookReconstructor instance (object graph only)
    calls,       \* history: the reconstructor methods a resource call has invoked
    gen2         \* a second generator object of iterate on the same instance

vars == <<self, ret, checkpoint, deltas, depth, gen, pulls, applied, heap, held,
          peer, calls, gen2>>

-----------------------------------------------------------------------------
(* Bounds of the model.                                                    *)

\* Largest depth argument passed to get_snapshot.
MaxDepth == 2
\* Longest delta collection handed to a bulk replay call.
MaxDeltas == 3
\* Longest delta collection iterated while other calls are interleaved.
MaxSharedDeltas == 2
\* Longest delta collection handed to detect_gaps, and its largest sequence.
MaxGapLen == 5
MaxGapSeq == 7

-----------------------------------------------------------------------------
(* Python values.                                                          *)

None == "None"

NoDepth == << >>
SomeDepth(k) == <<k>>

\* A truthiness under which every integer, 0 too, is true.
TruthyUnlessNone(d) == Len(d) = 1

\* Python truthiness of an Optional[int]: None and 0 are false.
Truthy(d) == Len(d) = 1 /\ d[1] # 0

Abs(x) == IF x < 0 THEN -x ELSE x

DigitChar(d) ==
    CASE d = 0 -> "0" [] d = 1 -> "1" [] d = 2 -> "2" [] d = 3 -> "3"
      [] d = 4 -> "4" [] d = 5 -> "5" [] d = 6 -> "6" [] d = 7 -> "7"
      [] d = 8 -> "8" [] d = 9 -> "9"

DigitVal(c) ==
    CASE c = "0" -> 0 [] c = "1" -> 1 [] c = "2" -> 2 [] c = "3" -> 3
      [] c = "4" -> 4 [] c = "5" -> 5 [] c = "6" -> 6 [] c = "7" -> 7
      [] c = "8" -> 8 [] c = "9" -> 9

RECURSIVE NatStr(_)
NatStr(n) == IF n < 10 THEN DigitChar(n) ELSE NatStr(n \div 10) \o DigitChar(n % 10)

RECURSIVE Pow10(_)
Pow10(k) == IF k = 0 THEN 1 ELSE 10 * Pow10(k - 1)

\* The digits s[i..j] as a natural number.
RECURSIVE DigitsVal(_, _, _)
DigitsVal(s, i, j) ==
    IF i > j THEN 0 ELSE 10 * DigitsVal(s, i, j - 1) + DigitVal(SubSeq(s, j, j))

\* Position of the first "." of s at or after i, or 0.
RECURSIVE DotAt(_, _)
DotAt(s, i) ==
    IF i > Len(s) THEN 0
    ELSE IF SubSeq(s, i, i) = "." THEN i ELSE DotAt(s, i + 1)

\* float(s) for a decimal literal s (optional sign, digits, optional fraction)
\* whose value is a multiple of 0.25: the value in quarters.
float(s) ==
    LET n     == Len(s)
        first == IF SubSeq(s, 1, 1) = "-" THEN 2 ELSE 1
        dot   == DotAt(s, first)
        ipart == DigitsVal(s, first, IF dot = 0 THEN n ELSE dot - 1)
        fpart == IF dot = 0 THEN 0
                 ELSE (4 * DigitsVal(s, dot + 1, n)) \div Pow10(n - dot)
        mag   == 4 * ipart + fpart
    IN  IF first = 2 THEN -mag ELSE mag

\* str(x) for a float x given in quarters: the shortest repr, always with a
\* fractional part ("100.0", "2.5", "0.25").
RECURSIVE str(_)
str(x) ==
    IF x < 0 THEN "-" \o str(-x)
    ELSE NatStr(x \div 4) \o "." \o
         (CASE x % 4 = 0 -> "0" [] x % 4 = 1 -> "25" [] x % 4 = 2 -> "5" [] x % 4 = 3 -> "75")

\* A two-decimal format that cuts the further digits off instead of rounding.
Format2fTruncating(spread, mid_price) ==
    LET neg == (spread < 0) # (mid_price < 0)
        h   == (Abs(spread) * 1000000) \div Abs(mid_price)
        cs  == h % 100
    IN  (IF neg THEN "-" ELSE "") \o NatStr(h \div 100) \o "." \o
        DigitChar(cs \div 10) \o DigitChar(cs % 10)

\* f"{v:.2f}" for v = (spread / mid_price) * 10000, spread and mid_price in
\* quarters, mid_price # 0: the quotient rounded to two decimals (half to even).
\* spread is never -0.0, so the quotient is negative, or -0.0 and printed
\* "-0.00", exactly when spread < 0 differs from mid_price < 0.
Format2f(spread, mid_price) ==
    LET neg == (spread < 0) # (mid_price < 0)
        num == Abs(spread) * 1000000
        den == Abs(mid_price)
        q   == num \div den
        r   == num % den
        h   == IF 2 * r > den \/ (2 * r = den /\ q % 2 = 1) THEN q + 1 ELSE q
        cs  == h % 100
    IN  (IF neg THEN "-" ELSE "") \o NatStr(h \div 100) \o "." \o
        DigitChar(cs \div 10) \o DigitChar(cs % 10)

\* datetime.fromtimestamp(ms / 1000, tz=utc).isoformat().replace("+00:00", "Z")
\* for 0 <= ms < 3600000 (the first hour of the epoch).
IsoTimestamp(ms) ==
    LET m  == ms \div 60000
        s  == (ms % 60000) \div 1000
        f  == ms % 1000
        two(n) == DigitChar(n \div 10) \o DigitChar(n % 10)
        iso == "1970-01-01T00:" \o two(m) \o ":" \o two(s) \o
               (IF f = 0 THEN ""
                ELSE "." \o DigitChar(f \div 100) \o two(f % 100) \o "000") \o
               "+00:00"
    IN  SubSeq(iso, 1, Len(iso) - 6) \o "Z"

-----------------------------------------------------------------------------
(* Records of types.py and orderbook_reconstructor.py.                     *)

PriceLevel(px, sz, n) == [px |-> px, sz |-> sz, n |-> n]

OrderBook(coin, timestamp, bids, asks) ==
    [coin |-> coin, timestamp |-> timestamp, bids |-> bids, asks |-> asks]

OrderbookDelta(timestamp, side, price, size, sequence) ==
    [timestamp |-> timestamp, side |-> side, price |-> price, size |-> size,
     sequence |-> sequence]

InternalLevel(price, size, orders) == [price |-> price, size |-> size, orders |-> orders]

ReconstructOptions(d, emit_all) == [depth |-> d, emit_all |-> emit_all]

ReconstructedOrderBook(coin, timestamp, bids, asks, mid_price, spread, spread_bps, sequence) ==
    [coin |-> coin, timestamp |-> timestamp, bids |-> bids, asks |-> asks,
     mid_price |-> mid_price, spread |-> spread, spread_bps |-> spread_bps,
     sequence |-> sequence]

-----------------------------------------------------------------------------
(* Python dict (price -> InternalLevel) as a function on its key set.      *)

EmptyDict == [k \in {} |-> 0]

DictSet(d, k, v) == [x \in (DOMAIN d) \cup {k} |-> IF x = k THEN v ELSE d[x]]

\* dict.pop(k, None): absence is not an error.
DictPop(d, k) == [x \in (DOMAIN d) \ {k} |-> d[x]]

\* A clear() that removes nothing.
DictClearNothing(d) == d

\* dict.clear()
DictClear(d) == EmptyDict

-----------------------------------------------------------------------------
(* OrderBookReconstructor.                                                 *)

\* No reconstructor: the name is not bound to an instance.
NoInstance == [exists |-> FALSE]

\* __init__
NewReconstructor ==
    [bids |-> EmptyDict, asks |-> EmptyDict, coin |-> "",
     last_timestamp |-> "", last_sequence |-> 0]

\* A loop of initialize that counts one order at every level, as apply_delta
\* does, whatever the checkpoint says.
RECURSIVE LoadLevelsCountingOne(_, _)
LoadLevelsCountingOne(book, levels) ==
    IF levels = << >> THEN book
    ELSE LET level == Head(levels)
             price == float(level.px)
         IN  LoadLevelsCountingOne(DictSet(book, price,
                                           InternalLevel(price, float(level.sz), 1)),
                                   Tail(levels))

\* The loop of initialize over one side of the checkpoint, in list order: a
\* later level at the same numeric price overwrites an earlier one.
RECURSIVE LoadLevels(_, _)
LoadLevels(book, levels) ==
    IF levels = << >> THEN book
    ELSE LET level == Head(levels)
             price == float(level.px)
         IN  LoadLevels(DictSet(book, price,
                                InternalLevel(price, float(level.sz), level.n)),
                        Tail(levels))

\* An initialize that loads the checkpoint and leaves last_sequence as the
\* last delta set it.
initializeKeepingSequence(s, cp) ==
    [bids |-> LoadLevels(DictClear(s.bids), cp.bids),
     asks |-> LoadLevels(DictClear(s.asks), cp.asks),
     coin |-> cp.coin,
     last_timestamp |-> cp.timestamp,
     last_sequence |-> s.last_sequence]

initialize(s, cp) ==
    [bids |-> LoadLevels(DictClear(s.bids), cp.bids),
     asks |-> LoadLevels(DictClear(s.asks), cp.asks),
     coin |-> cp.coin,
     last_timestamp |-> cp.timestamp,
     last_sequence |-> 0]

\* Mutant of UpdateBook: a size of 0 is stored like any other size.
UpdateBookStoresZero(book, delta) ==
    DictSet(book, delta.price, InternalLevel(delta.price, delta.size, 1))

\* Mutant of UpdateBook: an overwritten level keeps its order count.
UpdateBookKeepsOrders(book, delta) ==
    IF delta.size = 0
    THEN DictPop(book, delta.price)
    ELSE DictSet(book, delta.price,
                 InternalLevel(delta.price, delta.size,
                               IF delta.price \in DOMAIN book
                               THEN book[delta.price].orders ELSE 1))

\* The side map apply_delta works on, after its update.
UpdateBook(book, delta) ==
    IF delta.size = 0
    THEN DictPop(book, delta.price)
    ELSE DictSet(book, delta.price, InternalLevel(delta.price, delta.size, 1))

\* An apply_delta that ignores a delta older than the last one applied.
apply_deltaSkippingStale(s, delta) ==
    IF delta.sequence < s.last_sequence
    THEN s
    ELSE [bids |-> IF delta.side = "bid" THEN UpdateBook(s.bids, delta) ELSE s.bids,
          asks |-> IF delta.side = "bid" THEN s.asks ELSE UpdateBook(s.asks, delta),
          coin |-> s.coin,
          last_timestamp |-> IsoTimestamp(delta.timestamp),
          last_sequence |-> delta.sequence]

\* An apply_delta that returns at once when a size-0 delta finds no level
\* to remove, recording nothing.
apply_deltaSkippingNoOp(s, delta) ==
    IF delta.size = 0 /\ delta.price \notin DOMAIN (IF delta.side = "bid" THEN s.bids ELSE s.asks)
    THEN s
    ELSE [bids |-> IF delta.side = "bid" THEN UpdateBook(s.bids, delta) ELSE s.bids,
          asks |-> IF delta.side = "bid" THEN s.asks ELSE UpdateBook(s.asks, delta),
          coin |-> s.coin,
          last_timestamp |-> IsoTimestamp(delta.timestamp),
          last_sequence |-> delta.sequence]

\* An apply_delta that updates the delta's price in both side maps.
apply_deltaBothSides(s, delta) ==
    [bids |-> UpdateBook(s.bids, delta),
     asks |-> UpdateBook(s.asks, delta),
     coin |-> s.coin,
     last_timestamp |-> IsoTimestamp(delta.timestamp),
     last_sequence |-> delta.sequence]

\* An apply_delta whose last_sequence never goes down.
apply_deltaMonotone(s, delta) ==
    [bids |-> IF delta.side = "bid" THEN UpdateBook(s.bids, delta) ELSE s.bids,
     asks |-> IF delta.side = "bid" THEN s.asks ELSE UpdateBook(s.asks, delta),
     coin |-> s.coin,
     last_timestamp |-> IsoTimestamp(delta.timestamp),
     last_sequence |-> IF delta.sequence > s.last_sequence
                       THEN delta.sequence ELSE s.last_sequence]

apply_delta(s, delta) ==
    [bids |-> IF delta.side = "bid" THEN UpdateBook(s.bids, delta) ELSE s.bids,
     asks |-> IF delta.side = "bid" THEN s.asks ELSE UpdateBook(s.asks, delta),
     coin |-> s.coin,
     last_timestamp |-> IsoTimestamp(delta.timestamp),
     last_sequence |-> delta.sequence]

\* Mutant of SortedLevels: reverse is ignored, both sides come out ascending.
RECURSIVE SortedLevelsIgnoringReverse(_, _)
SortedLevelsIgnoringReverse(book, reverse) ==
    IF DOMAIN book = {} THEN << >>
    ELSE LET k == CHOOSE k \in DOMAIN book :
                    \A j \in DOMAIN book : book[k].price <= book[j].price
         IN  <<book[k]>> \o SortedLevelsIgnoringReverse(DictPop(book, k), reverse)

\* sorted(book.values(), key=lambda x: x.price, reverse=reverse).  The keys of
\* a side map are its levels' prices, so no two values tie.
RECURSIVE SortedLevels(_, _)
SortedLevels(book, reverse) ==
    IF DOMAIN book = {} THEN << >>
    ELSE LET k == CHOOSE k \in DOMAIN book :
                    \A j \in DOMAIN book :
                        IF reverse THEN book[j].price <= book[k].price
                                   ELSE book[k].price <= book[j].price
         IN  <<book[k]>> \o SortedLevels(DictPop(book, k), reverse)

\* A slice that keeps the last d levels: levels[-d:] for d >= 1.
SliceFromTheEnd(levels, d) ==
    SubSeq(levels, IF d < Len(levels) THEN Len(levels) - d + 1 ELSE 1, Len(levels))

\* Mutant of Slice: one level too many.
SliceOneMore(levels, d) ==
    SubSeq(levels, 1, IF d + 1 < Len(levels) THEN d + 1 ELSE Len(levels))

\* levels[:d] for d >= 0
Slice(levels, d) == SubSeq(levels, 1, IF d < Len(levels) THEN d ELSE Len(levels))

\* A depth limit that takes an absent depth for a limit of zero levels.
DepthLimitNoneIsZero(levels, d) ==
    IF d = NoDepth THEN << >> ELSE IF d[1] # 0 THEN Slice(levels, d[1]) ELSE levels

\* The depth limit of get_snapshot: applied only to a truthy depth.
DepthLimit(levels, d) == IF Truthy(d) THEN Slice(levels, d[1]) ELSE levels

\* _to_level
ToLevel(level) == PriceLevel(str(level.price), str(level.size), level.orders)

ToLevels(levels) == [i \in 1..Len(levels) |-> ToLevel(levels[i])]

\* A get_snapshot that divides by a mid price of zero.
get_snapshotUnguarded(s, d) ==
    LET sorted_bids == DepthLimit(SortedLevels(s.bids, TRUE), d)
        sorted_asks == DepthLimit(SortedLevels(s.asks, FALSE), d)
        both        == sorted_bids # << >> /\ sorted_asks # << >>
        best_bid    == sorted_bids[1].price
        best_ask    == sorted_asks[1].price
        mid_price   == (best_bid + best_ask) \div 2
        spread      == best_ask - best_bid
    IN  ReconstructedOrderBook(
            s.coin,
            s.last_timestamp,
            ToLevels(sorted_bids),
            ToLevels(sorted_asks),
            IF both THEN str(mid_price) ELSE None,
            IF both THEN str(spread) ELSE None,
            IF both
            THEN IF mid_price # 0 THEN Format2f(spread, mid_price)
                 ELSE IF spread = 0 THEN "nan" ELSE IF spread < 0 THEN "-inf" ELSE "inf"
            ELSE None,
            s.last_sequence)

\* A get_snapshot that reports zeros where a side is missing.
get_snapshotZeroWhenEmpty(s, d) ==
    LET sorted_bids == DepthLimit(SortedLevels(s.bids, TRUE), d)
        sorted_asks == DepthLimit(SortedLevels(s.asks, FALSE), d)
        both        == sorted_bids # << >> /\ sorted_asks # << >>
        best_bid    == sorted_bids[1].price
        best_ask    == sorted_asks[1].price
        mid_price   == (best_bid + best_ask) \div 2
        spread      == best_ask - best_bid
    IN  ReconstructedOrderBook(
            s.coin,
            s.last_timestamp,
            ToLevels(sorted_bids),
            ToLevels(sorted_asks),
            IF both THEN str(mid_price) ELSE "0.0",
            IF both THEN str(spread) ELSE "0.0",
            IF both /\ mid_price # 0 THEN Format2f(spread, mid_price) ELSE "0.00",
            s.last_sequence)

get_snapshot(s, d) ==
    LET sorted_bids == DepthLimit(SortedLevels(s.bids, TRUE), d)
        sorted_asks == DepthLimit(SortedLevels(s.asks, FALSE), d)
        both        == sorted_bids # << >> /\ sorted_asks # << >>
        best_bid    == sorted_bids[1].price
        best_ask    == sorted_asks[1].price
        mid2        == best_bid + best_ask      \* twice the mid price
        mid_price   == mid2 \div 2
        spread      == best_ask - best_bid
    IN  ReconstructedOrderBook(
            s.coin,
            s.last_timestamp,
            ToLevels(sorted_bids),
            ToLevels(sorted_asks),
            IF both THEN str(mid_price) ELSE None,
            IF both THEN str(spread) ELSE None,
            IF both /\ mid_price # 0 THEN Format2f(spread, mid_price) ELSE None,
            s.last_sequence)

-----------------------------------------------------------------------------
(* Bulk replay.  A method that changes the instance and returns a value is *)
(* an operator giving both: [self |-> the instance after, ret |-> value].  *)

\* A step of an insertion sort that is not stable: d goes before the
\* elements of equal sequence.
InsertBySequenceBeforeTies(sd, d) ==
    LET k == Cardinality({ i \in 1..Len(sd) : sd[i].sequence < d.sequence })
    IN  SubSeq(sd, 1, k) \o <<d>> \o SubSeq(sd, k + 1, Len(sd))

\* One step of a stable insertion sort: d goes after every element whose
\* sequence is not larger.
InsertBySequence(sd, d) ==
    LET k == Cardinality({ i \in 1..Len(sd) : sd[i].sequence <= d.sequence })
    IN  SubSeq(sd, 1, k) \o <<d>> \o SubSeq(sd, k + 1, Len(sd))

\* A replay that takes the deltas in the order given.
KeptInGivenOrder(ds) == ds

\* sorted(deltas, key=lambda d: d.sequence): ascending, stable, on a copy.
RECURSIVE SortedBySequence(_)
SortedBySequence(ds) ==
    IF ds = << >> THEN << >>
    ELSE InsertBySequence(SortedBySequence(SubSeq(ds, 1, Len(ds) - 1)), ds[Len(ds)])

\* options = options or ReconstructOptions(): << >> is None, <<o>> is o.
OptionsOr(options) ==
    IF options = << >> THEN ReconstructOptions(NoDepth, TRUE) ELSE options[1]

\* A loop that takes each snapshot before it applies the delta.
RECURSIVE ReplayLoopSnapshotFirst(_, _, _, _, _)
ReplayLoopSnapshotFirst(s, sd, i, snapshots, options) ==
    IF i > Len(sd) THEN [self |-> s, ret |-> snapshots]
    ELSE ReplayLoopSnapshotFirst(apply_delta(s, sd[i]), sd, i + 1,
                                 IF options.emit_all
                                 THEN Append(snapshots, get_snapshot(s, options.depth))
                                 ELSE snapshots,
                                 options)

\* The loop of reconstruct_all over the sorted deltas, from the i-th on.
RECURSIVE ReplayLoop(_, _, _, _, _)
ReplayLoop(s, sd, i, snapshots, options) ==
    IF i > Len(sd) THEN [self |-> s, ret |-> snapshots]
    ELSE LET s1 == apply_delta(s, sd[i])
         IN  ReplayLoop(s1, sd, i + 1,
                        IF options.emit_all
                        THEN Append(snapshots, get_snapshot(s1, options.depth))
                        ELSE snapshots,
                        options)

\* A reconstruct_all whose single snapshot, with emit_all disabled, is taken
\* without the depth limit.
reconstruct_allFinalUnlimited(s, cp, ds, opts) ==
    LET options       == OptionsOr(opts)
        s0            == initialize(s, cp)
        sorted_deltas == SortedBySequence(ds)
        first         == IF options.emit_all
                         THEN << get_snapshot(s0, options.depth) >>
                         ELSE << >>
        loop          == ReplayLoop(s0, sorted_deltas, 1, first, options)
    IN  [self |-> loop.self,
         ret  |-> IF ~options.emit_all
                  THEN Append(loop.ret, get_snapshot(loop.self, NoDepth))
                  ELSE loop.ret]

reconstruct_all(s, cp, ds, opts) ==
    LET options       == OptionsOr(opts)
        s0            == initialize(s, cp)
        sorted_deltas == SortedBySequence(ds)
        first         == IF options.emit_all
                         THEN << get_snapshot(s0, options.depth) >>
                         ELSE << >>
        loop          == ReplayLoop(s0, sorted_deltas, 1, first, options)
    IN  [self |-> loop.self,
         ret  |-> IF ~options.emit_all
                  THEN Append(loop.ret, get_snapshot(loop.self, options.depth))
                  ELSE loop.ret]

\* The loop of reconstruct_final.
RECURSIVE ApplyAll(_, _)
ApplyAll(s, sd) ==
    IF sd = << >> THEN s ELSE ApplyAll(apply_delta(s, Head(sd)), Tail(sd))

\* A reconstruct_final that applies the deltas without sorting them.
reconstruct_finalUnsorted(s, cp, ds, d) ==
    LET s1 == ApplyAll(initialize(s, cp), ds)
    IN  [self |-> s1, ret |-> get_snapshot(s1, d)]

reconstruct_final(s, cp, ds, d) ==
    LET s1 == ApplyAll(initialize(s, cp), SortedBySequence(ds))
    IN  [self |-> s1, ret |-> get_snapshot(s1, d)]

\* An iterate whose generator forgets the depth it was given.
iterateDroppingDepth(cp, ds, d) ==
    [pc |-> "start", checkpoint |-> cp, deltas |-> ds, depth |-> NoDepth,
     sorted_deltas |-> << >>, i |-> 0]

\* iterate(checkpoint, deltas, depth) runs no code: it returns a generator
\* object suspended before the first line of the body.
iterate(cp, ds, d) ==
    [pc |-> "start", checkpoint |-> cp, deltas |-> ds, depth |-> d,
     sorted_deltas |-> << >>, i |-> 0]

\* A generator that keeps a book of its own: at each step it advances its
\* private replay and writes the result over the instance's state.
GenNextPrivateCopy(s, g) ==
    CASE g.pc = "start" ->
            LET s0 == initialize(NewReconstructor, g.checkpoint)
            IN  [self |-> s0, gen |-> [g EXCEPT !.pc = "yield_initial"],
                 stop |-> FALSE, ret |-> get_snapshot(s0, g.depth), applied |-> 0]
      [] g.pc \in {"yield_initial", "yield_delta"} ->
            LET sd == IF g.pc = "yield_initial"
                      THEN SortedBySequence(g.deltas) ELSE g.sorted_deltas
            IN  IF g.i < Len(sd)
                THEN LET private == ApplyAll(initialize(NewReconstructor, g.checkpoint),
                                             SubSeq(sd, 1, g.i))
                         s1      == apply_delta(private, sd[g.i + 1])
                     IN  [self |-> s1,
                          gen |-> [g EXCEPT !.pc = "yield_delta",
                                            !.sorted_deltas = sd, !.i = g.i + 1],
                          stop |-> FALSE, ret |-> get_snapshot(s1, g.depth),
                          applied |-> 1]
                ELSE [self |-> s,
                      gen |-> [g EXCEPT !.pc = "done", !.sorted_deltas = sd],
                      stop |-> TRUE, ret |-> None, applied |-> 0]
      [] g.pc = "done" ->
            [self |-> s, gen |-> g, stop |-> TRUE, ret |-> None, applied |-> 0]

\* A generator that replays every delta before its first yield.
GenNextEager(s, g) ==
    CASE g.pc = "start" ->
            LET sd == SortedBySequence(g.deltas)
                s1 == ApplyAll(initialize(s, g.checkpoint), sd)
            IN  [self |-> s1,
                 gen |-> [g EXCEPT !.pc = "yield_initial", !.sorted_deltas = sd],
                 stop |-> FALSE, ret |-> get_snapshot(s1, g.depth),
                 applied |-> Len(sd)]
      [] g.pc \in {"yield_initial", "yield_delta"} ->
            IF g.i < Len(g.sorted_deltas)
            THEN [self |-> s,
                  gen |-> [g EXCEPT !.pc = "yield_delta", !.i = g.i + 1],
                  stop |-> FALSE, ret |-> get_snapshot(s, g.depth), applied |-> 0]
            ELSE [self |-> s, gen |-> [g EXCEPT !.pc = "done"],
                  stop |-> TRUE, ret |-> None, applied |-> 0]
      [] g.pc = "done" ->
            [self |-> s, gen |-> g, stop |-> TRUE, ret |-> None, applied |-> 0]

\* A generator that starts over when resumed after its end.
GenNextRestartable(s, g) ==
    IF g.pc \in {"start", "done"}
    THEN LET s0 == initialize(s, g.checkpoint)
         IN  [self |-> s0,
              gen |-> [g EXCEPT !.pc = "yield_initial", !.sorted_deltas = << >>, !.i = 0],
              stop |-> FALSE, ret |-> get_snapshot(s0, g.depth), applied |-> 0]
    ELSE LET sd == IF g.pc = "yield_initial"
                   THEN SortedBySequence(g.deltas) ELSE g.sorted_deltas
         IN  IF g.i < Len(sd)
             THEN LET s1 == apply_delta(s, sd[g.i + 1])
                  IN  [self |-> s1,
                       gen |-> [g EXCEPT !.pc = "yield_delta",
                                         !.sorted_deltas = sd, !.i = g.i + 1],
                       stop |-> FALSE, ret |-> get_snapshot(s1, g.depth),
                       applied |-> 1]
             ELSE [self |-> s,
                   gen |-> [g EXCEPT !.pc = "done", !.sorted_deltas = sd],
                   stop |-> TRUE, ret |-> None, applied |-> 0]

\* next(g) on the generator g of this instance: the body runs to its next
\* yield (stop = FALSE, ret = the snapshot) or to its end (stop = TRUE:
\* StopIteration).  applied counts the apply_delta calls of this run; i is
\* the position of the for loop in sorted_deltas.
GenNext(s, g) ==
    CASE g.pc = "start" ->
            LET s0 == initialize(s, g.checkpoint)
            IN  [self |-> s0, gen |-> [g EXCEPT !.pc = "yield_initial"],
                 stop |-> FALSE, ret |-> get_snapshot(s0, g.depth), applied |-> 0]
      [] g.pc \in {"yield_initial", "yield_delta"} ->
            LET sd == IF g.pc = "yield_initial"
                      THEN SortedBySequence(g.deltas) ELSE g.sorted_deltas
            IN  IF g.i < Len(sd)
                THEN LET s1 == apply_delta(s, sd[g.i + 1])
                     IN  [self |-> s1,
                          gen |-> [g EXCEPT !.pc = "yield_delta",
                                            !.sorted_deltas = sd, !.i = g.i + 1],
                          stop |-> FALSE, ret |-> get_snapshot(s1, g.depth),
                          applied |-> 1]
                ELSE [self |-> s,
                      gen |-> [g EXCEPT !.pc = "done", !.sorted_deltas = sd],
                      stop |-> TRUE, ret |-> None, applied |-> 0]
      [] g.pc = "done" ->
            [self |-> s, gen |-> g, stop |-> TRUE, ret |-> None, applied |-> 0]

\* A loop that reports a pair only where sequence numbers are skipped.
RECURSIVE GapLoopSkipsOnly(_, _, _)
GapLoopSkipsOnly(sd, i, gaps) ==
    IF i > Len(sd) THEN gaps
    ELSE LET expected == sd[i - 1].sequence + 1
             actual   == sd[i].sequence
         IN  GapLoopSkipsOnly(sd, i + 1,
                              IF actual > expected THEN Append(gaps, <<expected, actual>>)
                                                   ELSE gaps)

\* The loop of detect_gaps over consecutive pairs of the sorted deltas.
RECURSIVE GapLoop(_, _, _)
GapLoop(sd, i, gaps) ==
    IF i > Len(sd) THEN gaps
    ELSE LET expected == sd[i - 1].sequence + 1
             actual   == sd[i].sequence
         IN  GapLoop(sd, i + 1,
                     IF actual # expected THEN Append(gaps, <<expected, actual>>) ELSE gaps)

\* A detect_gaps that walks the deltas in the order given.
detect_gapsUnsorted(ds) ==
    IF Len(ds) < 2 THEN << >>
    ELSE GapLoop(ds, 2, << >>)

detect_gaps(ds) ==
    IF Len(ds) < 2 THEN << >>
    ELSE GapLoop(SortedBySequence(ds), 2, << >>)

-----------------------------------------------------------------------------
(* Inputs of the model.                                                    *)

Sides == {"bid", "ask"}

\* Delta prices 100.0, 101.5, 102.0 and sizes 0 (remove) and 1.0, in quarters.
DeltaPrices == {400, 406, 408}
DeltaSizes == {0, 4}
\* (timestamp in ms, sequence) of the deltas of a feed.
DeltaStamps == { <<1000, 1>>, <<1500, 2>> }

Deltas ==
    { OrderbookDelta(st[1], sd, p, sz, st[2]) :
        st \in DeltaStamps, sd \in Sides, p \in DeltaPrices, sz \in DeltaSizes }

\* Deltas whose side tag is neither "bid" nor "ask": apply_delta takes any str.
StrayDeltas ==
    { OrderbookDelta(1500, "buy", 400, 4, 2), OrderbookDelta(1000, "sell", 406, 0, 1) }

\* One side of a checkpoint as the API delivers it: empty, one level, three
\* levels best first, one price written two ways ("100" and "100.0"), and an
\* unsorted side holding a level of size 0.
CheckpointSides ==
    { << >>,
      << PriceLevel("100", "1", 3) >>,
      << PriceLevel("102", "1", 1), PriceLevel("101.5", "2.50", 5), PriceLevel("100", "1", 3) >>,
      << PriceLevel("100", "1", 3), PriceLevel("100.0", "2.50", 2) >>,
      << PriceLevel("101.5", "0", 4), PriceLevel("102", "1", 1) >> }

\* OrderBook.timestamp is a datetime, kept by initialize as it is.
CheckpointTime == "datetime(2024-01-01 00:00:00+00:00)"

Checkpoints ==
    { OrderBook("BTC", CheckpointTime, b, a) : b \in CheckpointSides, a \in CheckpointSides }

Depths == {NoDepth} \cup { SomeDepth(k) : k \in 0..MaxDepth }

\* The values the bulk replay variables hold while no bulk replay is modelled.
NoGen == [pc |-> "none"]

-----------------------------------------------------------------------------
(* Direct use of one instance: initialize, apply_delta and get_snapshot    *)
(* called in any order with any arguments.  ret records the call just      *)
(* made; for apply_delta also the level the delta found at its price.      *)

Init ==
    /\ self = NewReconstructor
    /\ ret = [op |-> "__init__"]
    /\ checkpoint = OrderBook("", "", << >>, << >>)
    /\ deltas = << >>
    /\ depth = NoDepth
    /\ gen = NoGen
    /\ pulls = << >>
    /\ applied = 0
    /\ heap = << >>
    /\ held = << >>
    /\ peer = NoInstance
    /\ calls = << >>
    /\ gen2 = NoGen

BookOf(s, side) == IF side = "bid" THEN s.bids ELSE s.asks

\* dict.get(k) as a sequence: << >> when k is absent, <<level>> otherwise.
Lookup(book, k) == IF k \in DOMAIN book THEN << book[k] >> ELSE << >>

Initialize ==
    \E cp \in Checkpoints :
        /\ self' = initialize(self, cp)
        /\ ret' = [op |-> "initialize", checkpoint |-> cp]
        /\ UNCHANGED <<checkpoint, deltas, depth, gen, pulls, applied, heap, held, peer, calls, gen2>>

ApplyDelta ==
    \E delta \in Deltas \cup StrayDeltas :
        /\ self' = apply_delta(self, delta)
        /\ ret' = [op |-> "apply_delta", delta |-> delta,
                   old |-> Lookup(BookOf(self, delta.side), delta.price)]
        /\ UNCHANGED <<checkpoint, deltas, depth, gen, pulls, applied, heap, held, peer, calls, gen2>>

\* A get_snapshot call that takes the levels it returns out of the store.
GetSnapshotConsuming ==
    \E d \in Depths :
        /\ ret' = [op |-> "get_snapshot", depth |-> d, value |-> get_snapshot(self, d)]
        /\ self' = [self EXCEPT !.bids = EmptyDict, !.asks = EmptyDict]
        /\ UNCHANGED <<checkpoint, deltas, depth, gen, pulls, applied, heap, held, peer, calls, gen2>>

GetSnapshot ==
    \E d \in Depths :
        /\ ret' = [op |-> "get_snapshot", depth |-> d, value |-> get_snapshot(self, d)]
        /\ UNCHANGED <<self, checkpoint, deltas, depth, gen, pulls, applied, heap, held, peer, calls, gen2>>

Next == Initialize \/ ApplyDelta \/ GetSnapshot

Spec == Init /\ [][Next]_vars

-----------------------------------------------------------------------------
(* Direct use of one instance on a book priced around zero: prices -0.5,   *)
(* 0.0 and 0.5, so that best bid and best ask can add up to zero.          *)

NearZeroSides ==
    { << >>,
      << PriceLevel("0", "1", 1) >>,
      << PriceLevel("-0.5", "1", 1) >>,
      << PriceLevel("0.5", "2", 2), PriceLevel("0", "1", 1) >> }

NearZeroCheckpoints ==
    { OrderBook("BTC", CheckpointTime, b, a) : b \in NearZeroSides, a \in NearZeroSides }

NearZeroDeltas ==
    { OrderbookDelta(1000, sd, p, sz, 1) :
        sd \in Sides, p \in {-2, 0, 2}, sz \in DeltaSizes }

NearZeroInitialize ==
    \E cp \in NearZeroCheckpoints :
        /\ self' = initialize(self, cp)
        /\ ret' = [op |-> "initialize", checkpoint |-> cp]
        /\ UNCHANGED <<checkpoint, deltas, depth, gen, pulls, applied, heap, held, peer, calls, gen2>>

NearZeroApplyDelta ==
    \E delta \in NearZeroDeltas :
        /\ self' = apply_delta(self, delta)
        /\ ret' = [op |-> "apply_delta", delta |-> delta,
                   old |-> Lookup(BookOf(self, delta.side), delta.price)]
        /\ UNCHANGED <<checkpoint, deltas, depth, gen, pulls, applied, heap, held, peer, calls, gen2>>

NearZeroNext == NearZeroInitialize \/ NearZeroApplyDelta \/ GetSnapshot

NearZeroSpec == Init /\ [][NearZeroNext]_vars

-----------------------------------------------------------------------------
(* Bulk replay of one caller-held checkpoint and delta collection on one   *)
(* instance: reconstruct_all, reconstruct_final, iterate and the pulls     *)
(* from its generator, in any order.  A caller that makes another replay   *)
(* call while a generator is suspended has abandoned that generator: it is *)
(* never resumed.                                                          *)

\* The deltas of a feed, stamps in feed order: an update of bid 100.0, then a
\* removal and an update of the same level that share sequence 2, then (after
\* a gap) an update of ask 101.5.
ReplayPool ==
    { OrderbookDelta(1000, "bid", 400, 4, 1),
      OrderbookDelta(1500, "bid", 400, 0, 2),
      OrderbookDelta(2000, "bid", 400, 2, 2),
      OrderbookDelta(2500, "ask", 406, 4, 4) }

DeltaLists(pool, n) == UNION { [1..k -> pool] : k \in 0..n }

IndexOrders(n) == { f \in [1..n -> 1..n] : \A i, j \in 1..n : f[i] = f[j] => i = j }

IsSortedBySequence(ds) ==
    \A i \in 1..(Len(ds) - 1) : ds[i].sequence <= ds[i + 1].sequence

\* The orders in which a caller can hand over ds sorted by sequence.
SortedOrders(ds) ==
    { p \in { [i \in 1..Len(ds) |-> ds[f[i]]] : f \in IndexOrders(Len(ds)) } :
        IsSortedBySequence(p) }

ReplayCheckpoints ==
    { OrderBook("BTC", CheckpointTime,
                << PriceLevel("102", "1", 1), PriceLevel("101.5", "2.50", 5),
                   PriceLevel("100", "1", 3) >>,
                << PriceLevel("100", "1", 3), PriceLevel("100.0", "2.50", 2) >>),
      OrderBook("ETH", CheckpointTime,
                << >>,
                << PriceLevel("101.5", "0", 4), PriceLevel("102", "1", 1) >>) }

ReplayDepths == { NoDepth, SomeDepth(1) }

ReplayInit ==
    /\ self = NewReconstructor
    /\ ret = [op |-> "__init__"]
    /\ checkpoint \in ReplayCheckpoints
    /\ deltas \in DeltaLists(ReplayPool, MaxDeltas)
    /\ depth \in ReplayDepths
    /\ gen = NoGen
    /\ pulls = << >>
    /\ applied = 0
    /\ heap = << >>
    /\ held = << >>
    /\ peer = NoInstance
    /\ calls = << >>
    /\ gen2 = NoGen

\* A reconstruct_all that sorts the caller's list in place (deltas.sort()).
ReconstructAllSortingInPlace ==
    \E opts \in { << >> } \cup { << ReconstructOptions(depth, e) >> : e \in BOOLEAN } :
        \E r \in { reconstruct_all(self, checkpoint, deltas, opts) } :
            /\ self' = r.self
            /\ ret' = [op |-> "reconstruct_all", options |-> opts, value |-> r.ret]
            /\ deltas' = SortedBySequence(deltas)
            /\ gen' = NoGen
            /\ pulls' = << >>
            /\ applied' = 0
            /\ UNCHANGED <<checkpoint, depth, heap, held, peer, calls, gen2>>

ReconstructAll ==
    \E opts \in { << >> } \cup { << ReconstructOptions(depth, e) >> : e \in BOOLEAN } :
        \E r \in { reconstruct_all(self, checkpoint, deltas, opts) } :
            /\ self' = r.self
            /\ ret' = [op |-> "reconstruct_all", options |-> opts, value |-> r.ret]
            /\ gen' = NoGen
            /\ pulls' = << >>
            /\ applied' = 0
            /\ UNCHANGED <<checkpoint, deltas, depth, heap, held, peer, calls, gen2>>

ReconstructFinal ==
    \E r \in { reconstruct_final(self, checkpoint, deltas, depth) } :
        /\ self' = r.self
        /\ ret' = [op |-> "reconstruct_final", value |-> r.ret]
        /\ gen' = NoGen
        /\ pulls' = << >>
        /\ applied' = 0
        /\ UNCHANGED <<checkpoint, deltas, depth, heap, held, peer, calls, gen2>>

\* An iterate that is an ordinary method: initialize runs at the call,
\* before any snapshot is pulled.
IterateInitializing ==
    /\ gen' = iterate(checkpoint, deltas, depth)
    /\ self' = initialize(self, checkpoint)
    /\ ret' = [op |-> "iterate"]
    /\ pulls' = << >>
    /\ applied' = 0
    /\ UNCHANGED <<checkpoint, deltas, depth, heap, held, peer, calls, gen2>>

Iterate ==
    /\ gen' = iterate(checkpoint, deltas, depth)
    /\ ret' = [op |-> "iterate"]
    /\ pulls' = << >>
    /\ applied' = 0
    /\ UNCHANGED <<self, checkpoint, deltas, depth, heap, held, peer, calls, gen2>>

Pull ==
    /\ gen.pc # "none"
    /\ \E r \in { GenNext(self, gen) } :
           /\ self' = r.self
           /\ gen' = r.gen
           /\ ret' = [op |-> "next", stop |-> r.stop, value |-> r.ret]
           /\ pulls' = IF r.stop THEN pulls ELSE Append(pulls, r.ret)
           /\ applied' = applied + r.applied
    /\ UNCHANGED <<checkpoint, deltas, depth, heap, held, peer, calls, gen2>>

\* A detect_gaps that takes the instance's last_sequence for the number
\* before the first delta and leaves the largest number seen in its place.
DetectGapsFromLastSequence ==
    \E sd \in { SortedBySequence(deltas) } :
        /\ ret' = [op |-> "detect_gaps",
                   value |-> IF sd = << >> THEN << >>
                             ELSE GapLoop(<< [sequence |-> self.last_sequence] >> \o sd,
                                          2, << >>)]
        /\ self' = IF sd = << >> THEN self
                   ELSE [self EXCEPT !.last_sequence = sd[Len(sd)].sequence]
        /\ UNCHANGED <<checkpoint, deltas, depth, gen, pulls, applied, heap, held, peer, calls, gen2>>

DetectGaps ==
    /\ ret' = [op |-> "detect_gaps", value |-> detect_gaps(deltas)]
    /\ UNCHANGED <<self, checkpoint, deltas, depth, gen, pulls, applied, heap, held, peer, calls, gen2>>

ReplayNext == ReconstructAll \/ ReconstructFinal \/ Iterate \/ Pull

ReplaySpec == ReplayInit /\ [][ReplayNext]_vars

-----------------------------------------------------------------------------
(* detect_gaps alone, on collections long enough for several gaps.         *)

GapDeltas == { OrderbookDelta(1000, "bid", 400, 4, q) : q \in 1..MaxGapSeq }

GapInit ==
    /\ self = NewReconstructor
    /\ ret = [op |-> "__init__"]
    /\ checkpoint = OrderBook("", "", << >>, << >>)
    /\ deltas \in DeltaLists(GapDeltas, MaxGapLen)
    /\ depth = NoDepth
    /\ gen = NoGen
    /\ pulls = << >>
    /\ applied = 0
    /\ heap = << >>
    /\ held = << >>
    /\ peer = NoInstance
    /\ calls = << >>
    /\ gen2 = NoGen

GapNext == DetectGaps

GapSpec == GapInit /\ [][GapNext]_vars

\* detect_gaps called on an instance in use: before, between and after the
\* bulk replay calls and the pulls from a generator.
GapCallNext == ReplayNext \/ DetectGaps

GapCallSpec == ReplayInit /\ [][GapCallNext]_vars


-----------------------------------------------------------------------------
(* Properties of the direct calls (specification Spec).                    *)

OtherSide(side) == IF side = "bid" THEN "ask" ELSE "bid"

\* The side of a snapshot a delta's side tag names.
SideOf(snap, side) == IF side = "bid" THEN snap.bids ELSE snap.asks

\* The numeric prices a snapshot side lists, in order.
PricesOf(levels) == [i \in 1..Len(levels) |-> float(levels[i].px)]

ListsPrice(levels, price) == \E i \in 1..Len(levels) : float(levels[i].px) = price

StrictlyDescending(ps) == \A i, j \in 1..Len(ps) : i < j => ps[i] > ps[j]
StrictlyAscending(ps) == \A i, j \in 1..Len(ps) : i < j => ps[i] < ps[j]

\* C1: every snapshot get_snapshot returns, after any initialize and any
\* sequence of apply_delta calls, lists its bids strictly descending by price
\* and its asks strictly ascending by price, so no price twice on a side.
C1_SortInvariant ==
    ret.op = "get_snapshot" =>
        /\ StrictlyDescending(PricesOf(ret.value.bids))
        /\ StrictlyAscending(PricesOf(ret.value.asks))

\* A snapshot of three bids and two asks taken after a delta was applied.
C1_Witness ==
    /\ ret.op = "get_snapshot"
    /\ Len(ret.value.bids) = 3
    /\ Len(ret.value.asks) >= 2
    /\ self.last_sequence # 0

\* C2: apply_delta with size 0 removes the level at (side, price) if there is
\* one and nothing else; if there is none both side maps stay as they were;
\* either way the store does not hold that price on that side, and a
\* get_snapshot that follows does not list it.
C2_RemovalLaw ==
    [][ /\ (ret'.op = "apply_delta" /\ ret'.delta.size = 0) =>
             LET d      == ret'.delta
                 before == BookOf(self, d.side)
                 after  == BookOf(self', d.side)
             IN  /\ d.price \notin DOMAIN after
                 /\ DOMAIN after = (DOMAIN before) \ {d.price}
                 /\ \A k \in DOMAIN after : after[k] = before[k]
                 /\ BookOf(self', OtherSide(d.side)) = BookOf(self, OtherSide(d.side))
                 /\ (d.price \notin DOMAIN before =>
                        self'.bids = self.bids /\ self'.asks = self.asks)
                 /\ ~ListsPrice(SideOf(get_snapshot(self', NoDepth), d.side), d.price)
        /\ (ret.op = "apply_delta" /\ ret.delta.size = 0 /\ ret'.op = "get_snapshot") =>
             ~ListsPrice(SideOf(ret'.value, ret.delta.side), ret.delta.price)
      ]_vars

\* A size-0 delta has just removed a level that the other side also holds.
C2_Witness ==
    /\ ret.op = "apply_delta"
    /\ ret.delta.size = 0
    /\ ret.old # << >>
    /\ ret.delta.price \in DOMAIN BookOf(self, OtherSide(ret.delta.side))

\* C3: after every operation neither side map holds a level of size 0.
C3_NoZeroSizeLevel ==
    \A side \in Sides : \A k \in DOMAIN BookOf(self, side) : BookOf(self, side)[k].size # 0

\* C7: after apply_delta with a non-zero size the level at (side, price) has
\* the delta's size and an order count of exactly 1, whatever count it had
\* before, and a get_snapshot that follows reports it so.
C7_OrderCountOne ==
    [][ /\ (ret'.op = "apply_delta" /\ ret'.delta.size # 0) =>
             LET d     == ret'.delta
                 snap  == get_snapshot(self', NoDepth)
                 level == PriceLevel(str(d.price), str(d.size), 1)
             IN  /\ BookOf(self', d.side)[d.price].orders = 1
                 /\ \E i \in 1..Len(SideOf(snap, d.side)) : SideOf(snap, d.side)[i] = level
        /\ (ret.op = "apply_delta" /\ ret.delta.size # 0 /\ ret'.op = "get_snapshot") =>
             LET d      == ret.delta
                 levels == SideOf(ret'.value, d.side)
             IN  /\ \A i \in 1..Len(levels) :
                        float(levels[i].px) = d.price => levels[i].n = 1
                 /\ ~Truthy(ret'.depth) => ListsPrice(levels, d.price)
      ]_vars

\* A delta has just overwritten a checkpoint level whose order count was not 1.
C7_Witness ==
    /\ ret.op = "apply_delta"
    /\ ret.delta.size # 0
    /\ ret.old # << >>
    /\ ret.old[1].orders > 1

\* The first k entries of levels (all of them if there are fewer).
IsPrefixOfLength(part, levels, k) ==
    /\ Len(part) = (IF k < Len(levels) THEN k ELSE Len(levels))
    /\ \A i \in 1..Len(part) : part[i] = levels[i]

-----------------------------------------------------------------------------
(* Properties of the bulk replay (specification ReplaySpec).               *)

Last(seq) == seq[Len(seq)]

\* The deltas of ds whose sequence number is q, in the order ds holds them.
WithSequence(ds, q) ==
    LET Tied(d) == d.sequence = q IN SelectSeq(ds, Tied)

\* Every reordering of ds.
Reorderings(ds) == { [i \in 1..Len(ds) |-> ds[f[i]]] : f \in IndexOrders(Len(ds)) }

\* p holds the deltas of equal sequence number in the order ds holds them.
TiesKeepOrder(ds, p) ==
    \A q \in { ds[i].sequence : i \in 1..Len(ds) } : WithSequence(p, q) = WithSequence(ds, q)

\* ds in ascending sequence order, deltas of equal sequence in input order.
AscendingOrder(ds) ==
    CHOOSE p \in Reorderings(ds) : IsSortedBySequence(p) /\ TiesKeepOrder(ds, p)

\* The value a caller gets from a fresh instance.
FinalOf(cp, ds, d) == reconstruct_final(NewReconstructor, cp, ds, d).ret
AllOf(cp, ds, opts) == reconstruct_all(NewReconstructor, cp, ds, opts).ret

\* C4: for the checkpoint, deltas and depth held, reconstruct_final returns
\* the last element of reconstruct_all with emit_all enabled, and that is the
\* last value pulled from iterate once the generator is exhausted.
C4_BulkEqualsIncremental ==
    /\ ret.op = "reconstruct_final" =>
           /\ ret.value = Last(AllOf(checkpoint, deltas, << ReconstructOptions(depth, TRUE) >>))
           /\ depth = NoDepth => ret.value = Last(AllOf(checkpoint, deltas, << >>))
    /\ (ret.op = "reconstruct_all" /\ OptionsOr(ret.options).emit_all) =>
           Last(ret.value) = FinalOf(checkpoint, deltas, OptionsOr(ret.options).depth)
    /\ gen.pc = "done" =>
           /\ Last(pulls) = FinalOf(checkpoint, deltas, depth)
           /\ Last(pulls) = Last(AllOf(checkpoint, deltas, << ReconstructOptions(depth, TRUE) >>))

\* A generator exhausted over three deltas handed over out of sequence order.
C4_Witness ==
    /\ gen.pc = "done"
    /\ Len(pulls) = 4
    /\ ~IsSortedBySequence(deltas)

\* C5 as stated: reconstruct_all on the deltas in any order ends in the
\* snapshot it ends in on every ordering of them that ascends by sequence.
C5_AnyReordering ==
    ret.op = "reconstruct_all" =>
        \A p \in SortedOrders(deltas) :
            Last(ret.value) = Last(AllOf(checkpoint, p, ret.options))

\* C5 amended: reconstruct_all ends in the same snapshot on every reordering
\* that keeps deltas of equal sequence number in their relative order, hence
\* on every reordering when the sequence numbers are pairwise distinct.
C5_ReorderingKeepingTies ==
    ret.op = "reconstruct_all" =>
        \A p \in Reorderings(deltas) :
            TiesKeepOrder(deltas, p) =>
                Last(ret.value) = Last(AllOf(checkpoint, p, ret.options))

\* reconstruct_all has run on three deltas of distinct sequence numbers handed
\* over in descending order.
C5_Witness ==
    /\ ret.op = "reconstruct_all"
    /\ Len(deltas) = 3
    /\ deltas[1].sequence > deltas[2].sequence
    /\ deltas[2].sequence > deltas[3].sequence

\* C6: with emit_all, reconstruct_all returns N+1 snapshots for N deltas: the
\* first is the freshly initialized checkpoint state with sequence 0, and the
\* one after it at position i is the state after the first i deltas in
\* ascending sequence order, carrying the sequence of the i-th of them;
\* without emit_all it returns one snapshot, the state after all N deltas.
C6_SnapshotPerDelta ==
    ret.op = "reconstruct_all" =>
        LET options == OptionsOr(ret.options)
            N       == Len(deltas)
            sd      == AscendingOrder(deltas)
            s0      == initialize(NewReconstructor, checkpoint)
        IN  IF options.emit_all
            THEN /\ Len(ret.value) = N + 1
                 /\ ret.value[1] = get_snapshot(s0, options.depth)
                 /\ ret.value[1].sequence = 0
                 /\ \A i \in 1..N :
                        /\ ret.value[i + 1] =
                               get_snapshot(ApplyAll(s0, SubSeq(sd, 1, i)), options.depth)
                        /\ ret.value[i + 1].sequence = sd[i].sequence
            ELSE /\ Len(ret.value) = 1
                 /\ ret.value[1] = get_snapshot(ApplyAll(s0, sd), options.depth)

\* reconstruct_all with emit_all has returned four snapshots for three deltas
\* handed over out of order, the second snapshot differing from the first.
C6_Witness ==
    /\ ret.op = "reconstruct_all"
    /\ OptionsOr(ret.options).emit_all
    /\ Len(deltas) = 3
    /\ ~IsSortedBySequence(deltas)
    /\ Len(ret.value) = 4
    /\ ret.value[2].bids # ret.value[1].bids

\* C10: while a generator of iterate is consumed, the number of deltas applied
\* to the store is the number of snapshots pulled minus one, the store is the
\* checkpoint state with exactly that many sorted deltas applied, and before
\* the first pull nothing has run.
C10_LazyIteration ==
    /\ gen.pc = "start" => applied = 0 /\ pulls = << >>
    /\ gen.pc \in {"yield_initial", "yield_delta", "done"} =>
           /\ Len(pulls) >= 1
           /\ applied = Len(pulls) - 1
           /\ self = ApplyAll(initialize(NewReconstructor, checkpoint),
                              SubSeq(AscendingOrder(deltas), 1, Len(pulls) - 1))
           /\ Last(pulls) = get_snapshot(self, depth)
    /\ gen.pc = "yield_initial" =>
           /\ Len(pulls) = 1
           /\ applied = 0
           /\ self = initialize(NewReconstructor, checkpoint)

\* Only the first snapshot of an iteration over three deltas has been pulled.
C10_Witness ==
    /\ gen.pc = "yield_initial"
    /\ Len(deltas) = 3
    /\ Len(pulls) = 1
    /\ applied = 0

-----------------------------------------------------------------------------
(* Properties of detect_gaps (specification GapSpec).                      *)

SequencesOf(ds) == [i \in 1..Len(ds) |-> ds[i].sequence]

\* The k-th smallest of the numbers in qs, counting repeats.
KthSmallest(qs, k) ==
    CHOOSE q \in { qs[i] : i \in 1..Len(qs) } :
        /\ Cardinality({ i \in 1..Len(qs) : qs[i] < q }) < k
        /\ Cardinality({ i \in 1..Len(qs) : qs[i] <= q }) >= k

\* (previous + 1, actual) for each two neighbours of qs in ascending order,
\* kept where they differ.
ExpectedGaps(qs) ==
    LET pairs == [i \in 1..(Len(qs) - 1) |->
                     << KthSmallest(qs, i) + 1, KthSmallest(qs, i + 1) >>]
        IsGap(pair) == pair[1] # pair[2]
    IN  SelectSeq(pairs, IsGap)

\* C9: detect_gaps returns, in ascending sequence order, exactly the pairs
\* (previous + 1, actual) of consecutive sorted deltas with actual different
\* from previous + 1; fewer than two deltas give the empty list, and nothing
\* is reported for the smallest sequence number; sequences 1,2,4,5,7 in any
\* order give (3,4),(6,7) and sequences 1,2,3 give the empty list.
C9_GapDetection ==
    ret.op = "detect_gaps" =>
        LET qs == SequencesOf(deltas)
        IN  /\ Len(deltas) < 2 => ret.value = << >>
            /\ Len(deltas) >= 2 => ret.value = ExpectedGaps(qs)
            /\ Len(ret.value) <= Len(deltas) - 1 \/ ret.value = << >>
            /\ \A i \in 1..Len(ret.value) :
                   \E j, k \in 1..Len(qs) :
                       j # k /\ qs[j] <= qs[k] /\ ret.value[i] = << qs[j] + 1, qs[k] >>
            /\ (Len(qs) = 5 /\ { qs[i] : i \in 1..5 } = {1, 2, 4, 5, 7}) =>
                   ret.value = << <<3, 4>>, <<6, 7>> >>
            /\ (Len(qs) = 3 /\ { qs[i] : i \in 1..3 } = {1, 2, 3}) => ret.value = << >>

\* detect_gaps has reported both gaps of the sequences 7,1,4,2,5.
C9_Witness ==
    /\ ret.op = "detect_gaps"
    /\ SequencesOf(deltas) = <<7, 1, 4, 2, 5>>
    /\ ret.value = << <<3, 4>>, <<6, 7>> >>

-----------------------------------------------------------------------------
(* Properties of the generator of iterate.                                 *)

\* C11: the snapshots pulled from iterate(checkpoint, deltas, depth) are, one
\* by one and in order, those of reconstruct_all with emit_all and the same
\* depth: a prefix of that list while the generator is suspended, the whole
\* list once it is exhausted.
C11_IterateMatchesReconstructAll ==
    gen.pc \in {"yield_initial", "yield_delta", "done"} =>
        LET all == AllOf(checkpoint, deltas, << ReconstructOptions(depth, TRUE) >>)
        IN  /\ Len(pulls) <= Len(all)
            /\ pulls = SubSeq(all, 1, Len(pulls))
            /\ gen.pc = "done" => pulls = all
            /\ (gen.pc = "done" /\ depth = NoDepth) => pulls = AllOf(checkpoint, deltas, << >>)

\* A depth-1 generator exhausted over three deltas, two of them sharing a
\* sequence number, handed over out of order.
C11_Witness ==
    /\ gen.pc = "done"
    /\ depth = SomeDepth(1)
    /\ Len(pulls) = 4
    /\ deltas[1].sequence = 2
    /\ deltas[2].sequence = 1
    /\ deltas[3].sequence = 2

\* C12: a generator of iterate over N deltas yields N+1 snapshots and then
\* ends: every next() on it before that yields one more snapshot, the next()
\* after the (N+1)-th reports the end, and a next() on the exhausted
\* generator yields nothing and changes neither the generator nor the store;
\* only a new iterate call starts another replay.
C12_FiniteIteration ==
    /\ [](gen.pc # "none" => Len(pulls) <= Len(deltas) + 1)
    /\ [](gen.pc = "done" => (Len(pulls) = Len(deltas) + 1 /\ ret.op = "next" /\ ret.stop))
    /\ [][ (gen.pc \in {"start", "yield_initial", "yield_delta"} /\ ret'.op = "next") =>
               IF Len(pulls) < Len(deltas) + 1
               THEN /\ ~ret'.stop
                    /\ gen'.pc # "done"
                    /\ pulls' = Append(pulls, ret'.value)
               ELSE /\ ret'.stop
                    /\ gen'.pc = "done"
                    /\ pulls' = pulls
                    /\ self' = self ]_vars
    /\ [][ (gen.pc = "done" /\ ret'.op = "next") =>
               /\ ret'.stop
               /\ ret'.value = None
               /\ pulls' = pulls
               /\ gen' = gen
               /\ self' = self ]_vars
    /\ [][ (gen.pc = "done" /\ gen'.pc \notin {"done", "none"}) =>
               (ret'.op = "iterate" /\ gen'.pc = "start" /\ pulls' = << >>) ]_vars

\* An exhausted generator over three deltas has been pulled from once more.
C12_Witness ==
    /\ gen.pc = "done"
    /\ ret.op = "next"
    /\ ret.stop
    /\ Len(deltas) = 3
    /\ Len(pulls) = 4
    /\ self.last_sequence = 4

-----------------------------------------------------------------------------
(* Properties of the direct calls, continued (specification Spec).         *)

\* C20: apply_delta rejects a delta whose side tag is neither "bid" nor
\* "ask" and leaves the store as it was.
C20_RejectsUnknownSide ==
    [][ (ret'.op = "apply_delta" /\ ret'.delta.side \notin Sides) => self' = self ]_vars

\* C13: get_snapshot leaves the instance as it was, so a get_snapshot that
\* follows another with no apply_delta or initialize between them returns,
\* for the same depth, a snapshot equal to the first in every field.
C13_IdempotentSnapshot ==
    [][ /\ ret'.op = "get_snapshot" =>
               /\ self' = self
               /\ get_snapshot(self', ret'.depth) = ret'.value
        /\ (ret.op = "get_snapshot" /\ ret'.op = "get_snapshot" /\ ret'.depth = ret.depth) =>
               /\ ret'.value.coin = ret.value.coin
               /\ ret'.value.timestamp = ret.value.timestamp
               /\ ret'.value.bids = ret.value.bids
               /\ ret'.value.asks = ret.value.asks
               /\ ret'.value.mid_price = ret.value.mid_price
               /\ ret'.value.spread = ret.value.spread
               /\ ret'.value.spread_bps = ret.value.spread_bps
               /\ ret'.value.sequence = ret.value.sequence
        /\ (ret.op = "get_snapshot" /\ ret'.op = "get_snapshot") =>
               ret.value = get_snapshot(self', ret.depth)
      ]_vars

\* A depth-2 snapshot with both sides present, taken after a delta of
\* sequence 2.
C13_Witness ==
    /\ ret.op = "get_snapshot"
    /\ ret.depth = SomeDepth(2)
    /\ ret.value.mid_price # None
    /\ ret.value.sequence = 2
    /\ Len(ret.value.bids) = 2

\* C14: apply_delta sets last_sequence to the delta's sequence, whether or not
\* it continues or exceeds the one before, and last_timestamp to the delta's
\* time in ISO form; a snapshot reports both, and reports sequence 0 and the
\* checkpoint's timestamp while no delta has been applied since initialize.
C14_Bookkeeping ==
    [][ /\ ret'.op = "apply_delta" =>
               LET d    == ret'.delta
                   snap == get_snapshot(self', NoDepth)
               IN  /\ self'.last_sequence = d.sequence
                   /\ self'.last_timestamp = IsoTimestamp(d.timestamp)
                   /\ d.timestamp = 1000 => self'.last_timestamp = "1970-01-01T00:00:01Z"
                   /\ d.timestamp = 1500 => self'.last_timestamp = "1970-01-01T00:00:01.500000Z"
                   /\ self'.last_timestamp # CheckpointTime
                   /\ snap.sequence = d.sequence
                   /\ snap.timestamp = self'.last_timestamp
        /\ (ret.op = "apply_delta" /\ ret'.op = "get_snapshot") =>
               /\ ret'.value.sequence = ret.delta.sequence
               /\ ret'.value.timestamp = IsoTimestamp(ret.delta.timestamp)
        /\ ret'.op = "get_snapshot" =>
               /\ ret'.value.sequence = self.last_sequence
               /\ ret'.value.timestamp = self.last_timestamp
               /\ self'.last_sequence = self.last_sequence
               /\ self'.last_timestamp = self.last_timestamp
        /\ ret'.op = "initialize" =>
               /\ self'.last_sequence = 0
               /\ self'.last_timestamp = ret'.checkpoint.timestamp
               /\ get_snapshot(self', NoDepth).sequence = 0
        /\ (ret.op \in {"__init__", "initialize"} /\ ret'.op = "get_snapshot") =>
               ret'.value.sequence = 0
      ]_vars

\* A delta of sequence 1 has overwritten, after an initialize, a bid level
\* that an earlier delta had left.
C14_Witness ==
    /\ ret.op = "apply_delta"
    /\ ret.delta.sequence = 1
    /\ ret.delta.side = "bid"
    /\ self.coin = "BTC"
    /\ ret.old # << >>
    /\ ret.old[1].orders = 1
    /\ ret.old[1].price = 406

\* The levels of one checkpoint side as initialize stores them: keyed by the
\* numeric price, the last level of a price standing for it.
HoldsExactly(book, levels) ==
    /\ DOMAIN book = { float(levels[i].px) : i \in 1..Len(levels) }
    /\ \A k \in DOMAIN book :
           \E i \in 1..Len(levels) :
               /\ float(levels[i].px) = k
               /\ \A j \in (i + 1)..Len(levels) : float(levels[j].px) # k
               /\ book[k] = InternalLevel(k, float(levels[i].sz), levels[i].n)

\* C15: after initialize(checkpoint), whatever was done to the instance
\* before, the side maps hold exactly the checkpoint's levels, coin and
\* timestamp are the checkpoint's and last_sequence is 0: the instance equals
\* a fresh one initialized with that checkpoint, and so do its snapshots.
C15_InitializeReplacesState ==
    ret.op = "initialize" =>
        LET cp == ret.checkpoint
        IN  /\ HoldsExactly(self.bids, cp.bids)
            /\ HoldsExactly(self.asks, cp.asks)
            /\ self.coin = cp.coin
            /\ self.last_timestamp = cp.timestamp
            /\ self.last_sequence = 0
            /\ self = initialize(NewReconstructor, cp)
            /\ \A d \in Depths :
                   get_snapshot(self, d) = get_snapshot(initialize(NewReconstructor, cp), d)

\* initialize has just loaded a checkpoint with a single bid and no asks.
C15_Witness ==
    /\ ret.op = "initialize"
    /\ Len(ret.checkpoint.bids) = 1
    /\ ret.checkpoint.asks = << >>
    /\ Cardinality(DOMAIN self.bids) = 1
    /\ self.asks = EmptyDict

Highest(prices) == CHOOSE p \in prices : \A q \in prices : q <= p
Lowest(prices) == CHOOSE p \in prices : \A q \in prices : p <= q

\* A decimal string with exactly two digits after the point, in hundredths.
Hundredths(t) ==
    LET first == IF SubSeq(t, 1, 1) = "-" THEN 2 ELSE 1
        mag   == 100 * DigitsVal(t, first, Len(t) - 3) + DigitsVal(t, Len(t) - 1, Len(t))
    IN  IF first = 2 THEN -mag ELSE mag

HasTwoDecimals(t) == Len(t) >= 4 /\ DotAt(t, 1) = Len(t) - 2

\* C16: with both sides non-empty, get_snapshot reports mid_price = (best_bid
\* + best_ask) / 2, spread = best_ask - best_bid, and spread_bps = spread /
\* mid_price * 10000 to two decimals, to the nearest hundredth; best bid 100
\* and best ask 102 give "101.0", "2.0" and "198.02".
C16_DerivedFields ==
    (ret.op = "get_snapshot" /\ self.bids # EmptyDict /\ self.asks # EmptyDict) =>
        LET best_bid == Highest(DOMAIN self.bids)
            best_ask == Lowest(DOMAIN self.asks)
            v        == ret.value
            mid      == float(v.mid_price)
        IN  /\ 2 * mid = best_bid + best_ask
            /\ v.mid_price = str(mid)
            /\ float(v.spread) = best_ask - best_bid
            /\ v.spread = str(best_ask - best_bid)
            /\ mid # 0 =>
                   /\ HasTwoDecimals(v.spread_bps)
                   /\ 2 * Abs(Hundredths(v.spread_bps) * mid - (best_ask - best_bid) * 1000000)
                          <= Abs(mid)
            /\ (best_bid = 400 /\ best_ask = 408) =>
                   /\ v.mid_price = "101.0"
                   /\ v.spread = "2.0"
                   /\ v.spread_bps = "198.02"

\* A snapshot of a book whose best bid is 100 and best ask 102.
C16_Witness ==
    /\ ret.op = "get_snapshot"
    /\ self.bids # EmptyDict
    /\ self.asks # EmptyDict
    /\ Highest(DOMAIN self.bids) = 400
    /\ Lowest(DOMAIN self.asks) = 408
    /\ ret.value.spread_bps = "198.02"

\* C17: a snapshot omits mid_price, spread and spread_bps (None, not zero)
\* whenever the bid side or the ask side is empty, and carries mid_price and
\* spread whenever both sides have a best level.
C17_DerivedFieldsOmitted ==
    ret.op = "get_snapshot" =>
        LET v     == ret.value
            empty == self.bids = EmptyDict \/ self.asks = EmptyDict
        IN  /\ empty <=> (v.bids = << >> \/ v.asks = << >>)
            /\ empty => /\ v.mid_price = None
                        /\ v.spread = None
                        /\ v.spread_bps = None
            /\ ~empty => /\ v.mid_price # None
                         /\ v.spread # None

\* A snapshot, after a delta, of a book with bids and no asks.
C17_Witness ==
    /\ ret.op = "get_snapshot"
    /\ self.last_sequence # 0
    /\ self.bids # EmptyDict
    /\ self.asks = EmptyDict
    /\ ret.value.mid_price = None

-----------------------------------------------------------------------------
(* Properties of snapshots of a book priced around zero (NearZeroSpec).    *)

\* C18: with both sides non-empty and a mid price of zero, get_snapshot
\* returns a snapshot with mid_price "0.0", the spread, and no spread_bps;
\* no snapshot carries an infinite or not-a-number spread_bps.
C18_ZeroMidGuard ==
    ret.op = "get_snapshot" =>
        LET v == ret.value
        IN  /\ v.spread_bps \notin {"inf", "-inf", "nan"}
            /\ (self.bids # EmptyDict /\ self.asks # EmptyDict) =>
                   LET best_bid == Highest(DOMAIN self.bids)
                       best_ask == Lowest(DOMAIN self.asks)
                   IN  IF best_bid + best_ask = 0
                       THEN /\ v.mid_price = "0.0"
                            /\ v.spread = str(best_ask - best_bid)
                            /\ v.spread_bps = None
                       ELSE /\ v.spread_bps # None
                            /\ HasTwoDecimals(v.spread_bps)

\* A snapshot of a book with best bid -0.5 and best ask 0.5.
C18_Witness ==
    /\ ret.op = "get_snapshot"
    /\ self.bids # EmptyDict
    /\ self.asks # EmptyDict
    /\ Highest(DOMAIN self.bids) = -2
    /\ Lowest(DOMAIN self.asks) = 2
    /\ ret.value.mid_price = "0.0"
    /\ ret.value.spread = "1.0"
    /\ ret.value.spread_bps = None

-----------------------------------------------------------------------------
(* The object graph.  Python values are references: the two side maps are  *)
(* dict objects mutated in place, the levels they hold are InternalLevel   *)
(* objects, and a snapshot is a ReconstructedOrderBook object referring to *)
(* two list objects of PriceLevel objects.  heap[a] is the object at       *)
(* address a; str, float, int and None are immutable and kept as values.   *)
(* Here self.bids and self.asks are the addresses of the two dicts, and a  *)
(* dict maps a price to the address of its InternalLevel.                  *)

\* Most objects allocated in one run.
MaxHeap == 12

Object(type, fields) == [type |-> type, fields |-> fields]

\* The instance as the other specifications see it: its maps by value.
BookAt(h, a) ==
    [k \in DOMAIN h[a].fields |-> h[h[a].fields[k]].fields]

StoreOf(h, s) ==
    [bids |-> BookAt(h, s.bids), asks |-> BookAt(h, s.asks), coin |-> s.coin,
     last_timestamp |-> s.last_timestamp, last_sequence |-> s.last_sequence]

\* __init__: two new empty dicts.
HeapNewReconstructor ==
    [heap |-> << Object("dict", EmptyDict), Object("dict", EmptyDict) >>,
     self |-> [bids |-> 1, asks |-> 2, coin |-> "",
               last_timestamp |-> "", last_sequence |-> 0]]

\* book[price] = InternalLevel(...): a new object, stored in the dict at d.
StoreNewLevel(h, d, level) ==
    [Append(h, Object("InternalLevel", level))
        EXCEPT ![d].fields = DictSet(@, level.price, Len(h) + 1)]

\* The loop of initialize over one side, on the dict at d.
RECURSIVE HeapLoadLevels(_, _, _)
HeapLoadLevels(h, d, levels) ==
    IF levels = << >> THEN h
    ELSE LET level == Head(levels)
             price == float(level.px)
         IN  HeapLoadLevels(
                 StoreNewLevel(h, d, InternalLevel(price, float(level.sz), level.n)),
                 d, Tail(levels))

\* initialize: both dicts are cleared in place and refilled.
heap_initialize(h, s, cp) ==
    LET cleared == [h EXCEPT ![s.bids].fields = DictClear(@),
                             ![s.asks].fields = DictClear(@)]
        loaded  == HeapLoadLevels(HeapLoadLevels(cleared, s.bids, cp.bids), s.asks, cp.asks)
    IN  [heap |-> loaded,
         self |-> [s EXCEPT !.coin = cp.coin, !.last_timestamp = cp.timestamp,
                            !.last_sequence = 0]]

\* apply_delta: pop from, or store a new InternalLevel in, the side's dict.
heap_apply_delta(h, s, delta) ==
    LET book == IF delta.side = "bid" THEN s.bids ELSE s.asks
    IN  [heap |-> IF delta.size = 0
                  THEN [h EXCEPT ![book].fields = DictPop(@, delta.price)]
                  ELSE StoreNewLevel(h, book, InternalLevel(delta.price, delta.size, 1)),
         self |-> [s EXCEPT !.last_timestamp = IsoTimestamp(delta.timestamp),
                            !.last_sequence = delta.sequence]]

\* A list comprehension that writes its PriceLevel objects into a list object
\* of an earlier call, when there is one, instead of building a new list.
NewLevelListReusing(h, levels) ==
    LET h1    == h \o [i \in 1..Len(levels) |-> Object("PriceLevel", levels[i])]
        items == [i \in 1..Len(levels) |-> Len(h) + i]
        lists == { a \in 1..Len(h) : h[a].type = "list" }
    IN  IF lists = {}
        THEN [heap |-> Append(h1, Object("list", items)), ref |-> Len(h1) + 1]
        ELSE LET a == CHOOSE a \in lists : \A b \in lists : a <= b
             IN  [heap |-> [h1 EXCEPT ![a].fields = items], ref |-> a]

\* [self._to_level(level) for level in sorted_levels]: a new PriceLevel object
\* per level and a new list object holding them.
NewLevelList(h, levels) ==
    LET h1    == h \o [i \in 1..Len(levels) |-> Object("PriceLevel", levels[i])]
        items == [i \in 1..Len(levels) |-> Len(h) + i]
    IN  [heap |-> Append(h1, Object("list", items)), ref |-> Len(h1) + 1]

\* A get_snapshot that drops from the two dicts the levels beyond the depth
\* limit.
heap_get_snapshotPruning(h, s, d) ==
    LET v    == get_snapshot(StoreOf(h, s), d)
        Kept(book, levels) ==
            [k \in { k \in DOMAIN book : \E i \in 1..Len(levels) : float(levels[i].px) = k }
                |-> book[k]]
        h0   == [h EXCEPT ![s.bids].fields = Kept(@, v.bids),
                          ![s.asks].fields = Kept(@, v.asks)]
        bids == NewLevelList(h0, v.bids)
        asks == NewLevelList(bids.heap, v.asks)
    IN  [heap |-> Append(asks.heap,
                         Object("ReconstructedOrderBook",
                                [v EXCEPT !.bids = bids.ref, !.asks = asks.ref])),
         ref  |-> Len(asks.heap) + 1]

\* get_snapshot: the sorted and sliced lists are temporaries; the object
\* returned is a new ReconstructedOrderBook over two new lists.
heap_get_snapshot(h, s, d) ==
    LET v    == get_snapshot(StoreOf(h, s), d)
        bids == NewLevelList(h, v.bids)
        asks == NewLevelList(bids.heap, v.asks)
    IN  [heap |-> Append(asks.heap,
                         Object("ReconstructedOrderBook",
                                [v EXCEPT !.bids = bids.ref, !.asks = asks.ref])),
         ref  |-> Len(asks.heap) + 1]

\* What a caller reads through the reference a: the snapshot by value.
ListAt(h, a) == [i \in 1..Len(h[a].fields) |-> h[h[a].fields[i]].fields]

SnapshotAt(h, a) ==
    [h[a].fields EXCEPT !.bids = ListAt(h, @), !.asks = ListAt(h, @)]

\* The mutable objects reachable from a snapshot, and from the instance.
ListObjects(h, a) == {a} \cup { h[a].fields[i] : i \in 1..Len(h[a].fields) }

SnapshotObjects(h, a) ==
    {a} \cup ListObjects(h, h[a].fields.bids) \cup ListObjects(h, h[a].fields.asks)

DictObjects(h, a) == {a} \cup { h[a].fields[k] : k \in DOMAIN h[a].fields }

StoreObjects(h, s) == DictObjects(h, s.bids) \cup DictObjects(h, s.asks)

HeapCheckpoints ==
    { OrderBook("BTC", CheckpointTime,
                << PriceLevel("100", "1", 3) >>, << PriceLevel("102", "1", 1) >>),
      OrderBook("ETH", CheckpointTime,
                << >>, << PriceLevel("102", "1", 1), PriceLevel("101.5", "2.50", 5) >>) }

HeapDeltas ==
    { OrderbookDelta(1000, "bid", 400, 4, 1),
      OrderbookDelta(1500, "bid", 400, 0, 2),
      OrderbookDelta(1500, "ask", 406, 4, 2) }

HeapDepths == { NoDepth, SomeDepth(1) }

HeapInit ==
    /\ heap = HeapNewReconstructor.heap
    /\ self = HeapNewReconstructor.self
    /\ held = << >>
    /\ peer = NoInstance
    /\ calls = << >>
    /\ gen2 = NoGen
    /\ ret = [op |-> "__init__"]
    /\ checkpoint = OrderBook("", "", << >>, << >>)
    /\ deltas = << >>
    /\ depth = NoDepth
    /\ gen = NoGen
    /\ pulls = << >>
    /\ applied = 0

HeapInitialize ==
    \E cp \in HeapCheckpoints :
        \E r \in { heap_initialize(heap, self, cp) } :
            /\ Len(r.heap) <= MaxHeap
            /\ heap' = r.heap
            /\ self' = r.self
            /\ ret' = [op |-> "initialize"]
            /\ UNCHANGED <<held, checkpoint, deltas, depth, gen, pulls, applied, peer, calls, gen2>>

HeapApplyDelta ==
    \E delta \in HeapDeltas :
        \E r \in { heap_apply_delta(heap, self, delta) } :
            /\ Len(r.heap) <= MaxHeap
            /\ heap' = r.heap
            /\ self' = r.self
            /\ ret' = [op |-> "apply_delta"]
            /\ UNCHANGED <<held, checkpoint, deltas, depth, gen, pulls, applied, peer, calls, gen2>>

\* The caller keeps the reference returned; seen is what it read through it
\* at that moment.
HeapGetSnapshot ==
    \E d \in HeapDepths :
        \E r \in { heap_get_snapshot(heap, self, d) } :
            /\ Len(r.heap) <= MaxHeap
            /\ heap' = r.heap
            /\ held' = Append(held, [ref |-> r.ref, seen |-> SnapshotAt(r.heap, r.ref)])
            /\ ret' = [op |-> "get_snapshot", depth |-> d]
            /\ UNCHANGED <<self, checkpoint, deltas, depth, gen, pulls, applied, peer, calls, gen2>>

HeapNext == HeapInitialize \/ HeapApplyDelta \/ HeapGetSnapshot

HeapSpec == HeapInit /\ [][HeapNext]_vars

\* C19: a snapshot that was returned reads the same, field by field and level
\* by level, after any later initialize, apply_delta or get_snapshot, it is
\* what get_snapshot computed, and it shares no object with the instance or
\* with another snapshot.
C19_SnapshotIsCopy ==
    \A i \in 1..Len(held) :
        /\ SnapshotAt(heap, held[i].ref) = held[i].seen
        /\ SnapshotObjects(heap, held[i].ref) \cap StoreObjects(heap, self) = {}
        /\ \A j \in 1..Len(held) :
               i # j => SnapshotObjects(heap, held[i].ref) \cap
                            SnapshotObjects(heap, held[j].ref) = {}
        /\ i = Len(held) /\ ret.op = "get_snapshot" =>
               held[i].seen = get_snapshot(StoreOf(heap, self), ret.depth)

\* Two snapshots are held that read differently, and the instance has been
\* initialized again since the second was returned.
C19_Witness ==
    /\ Len(held) = 2
    /\ held[1].seen.bids # << >>
    /\ held[1].seen.bids # held[2].seen.bids
    /\ ret.op = "initialize"
    /\ BookAt(heap, self.bids) = EmptyDict

-----------------------------------------------------------------------------
(* Properties of the depth argument (specification Spec).                  *)

\* The levels of a side map as a snapshot lists them, as a set.
LevelsOf(book) == { ToLevel(book[k]) : k \in DOMAIN book }

Range(seq) == { seq[i] : i \in 1..Len(seq) }

\* C21: get_snapshot without a depth lists every level of the bid map and
\* every level of the ask map, each once: an absent depth limits nothing.
C21_NoDepthIsUnlimited ==
    (ret.op = "get_snapshot" /\ ret.depth = NoDepth) =>
        /\ Len(ret.value.bids) = Cardinality(DOMAIN self.bids)
        /\ Len(ret.value.asks) = Cardinality(DOMAIN self.asks)
        /\ Range(ret.value.bids) = LevelsOf(self.bids)
        /\ Range(ret.value.asks) = LevelsOf(self.asks)

\* A snapshot without a depth of a book of three bids and three asks.
C21_Witness ==
    /\ ret.op = "get_snapshot"
    /\ ret.depth = NoDepth
    /\ Len(ret.value.bids) = 3
    /\ Len(ret.value.asks) = 3

-----------------------------------------------------------------------------
(* Properties of the bulk replay, continued (specification ReplaySpec).    *)

\* C23: reconstruct_final returns the single element reconstruct_all returns
\* with emit_all disabled and the same depth, and that call of
\* reconstruct_all returns exactly one element.
C23_FinalIsReconstructAllWithoutEmission ==
    /\ ret.op = "reconstruct_final" =>
           AllOf(checkpoint, deltas, << ReconstructOptions(depth, FALSE) >>) = << ret.value >>
    /\ (ret.op = "reconstruct_all" /\ ~OptionsOr(ret.options).emit_all) =>
           ret.value = << FinalOf(checkpoint, deltas, OptionsOr(ret.options).depth) >>

\* reconstruct_all with emit_all disabled has run at depth 1 over three deltas
\* handed over out of order, on a book of three bids.
C23_Witness ==
    /\ ret.op = "reconstruct_all"
    /\ ~OptionsOr(ret.options).emit_all
    /\ OptionsOr(ret.options).depth = SomeDepth(1)
    /\ Len(deltas) = 3
    /\ ~IsSortedBySequence(deltas)
    /\ Cardinality(DOMAIN self.bids) = 3

\* The side map a delta is applied to, by name.
BookName(side) == IF side = "bid" THEN "bid" ELSE "ask"

Touches(d, side, price) == BookName(d.side) = side /\ d.price = price

\* The snapshots the last call handed out without a depth limit.
UnlimitedSnapshots ==
    IF ret.op = "reconstruct_all" /\ OptionsOr(ret.options).depth = NoDepth THEN Range(ret.value)
    ELSE IF ret.op = "reconstruct_final" /\ depth = NoDepth THEN { ret.value }
    ELSE IF ret.op = "next" /\ depth = NoDepth THEN Range(pulls)
    ELSE { }

\* The checkpoint levels of a side whose price no delta of ds touches, by
\* position in the side's list.
Untouched(levels, side, ds) ==
    { i \in 1..Len(levels) :
        \A k \in 1..Len(ds) : ~Touches(ds[k], side, float(levels[i].px)) }

\* The level as a snapshot shows it when the store holds it as given.
Reproduced(level) == PriceLevel(str(float(level.px)), str(float(level.sz)), level.n)

\* C28 as stated: every checkpoint level no delta touches is in every later
\* snapshot with its checkpoint size and order count.
C28_EveryUntouchedLevelKept ==
    \A snap \in UnlimitedSnapshots :
        /\ \A i \in Untouched(checkpoint.bids, "bid", deltas) :
               Reproduced(checkpoint.bids[i]) \in Range(snap.bids)
        /\ \A i \in Untouched(checkpoint.asks, "ask", deltas) :
               Reproduced(checkpoint.asks[i]) \in Range(snap.asks)

\* No later level of the list has the numeric price of the i-th.
LastAtItsPrice(levels, i) ==
    \A j \in (i + 1)..Len(levels) : float(levels[j].px) # float(levels[i].px)

\* A snapshot of the checkpoint alone is crossed when the checkpoint is: no
\* level is dropped or reordered and the spread is negative.
CrossedAsGiven(snap) ==
    (/\ checkpoint.bids # << >>
     /\ checkpoint.asks # << >>
     /\ \E i \in 1..Len(checkpoint.bids), j \in 1..Len(checkpoint.asks) :
            float(checkpoint.bids[i].px) >= float(checkpoint.asks[j].px))
    => /\ float(snap.bids[1].px) >= float(snap.asks[1].px)
       /\ float(snap.spread) <= 0

\* C28 amended: a checkpoint level that no delta touches, and that is the
\* last of its side's list at its numeric price, keeps its checkpoint size
\* and order count in every later snapshot; a crossed checkpoint is accepted
\* and emitted crossed.
C28_UntouchedLevelKept ==
    /\ \A snap \in UnlimitedSnapshots :
           /\ \A i \in Untouched(checkpoint.bids, "bid", deltas) :
                  LastAtItsPrice(checkpoint.bids, i) =>
                      Reproduced(checkpoint.bids[i]) \in Range(snap.bids)
           /\ \A i \in Untouched(checkpoint.asks, "ask", deltas) :
                  LastAtItsPrice(checkpoint.asks, i) =>
                      Reproduced(checkpoint.asks[i]) \in Range(snap.asks)
    /\ (ret.op = "reconstruct_all" /\ OptionsOr(ret.options) = ReconstructOptions(NoDepth, TRUE)) =>
           CrossedAsGiven(ret.value[1])

\* Every snapshot of a replay of three deltas over the crossed checkpoint,
\* whose bid 100.0 the deltas touch and whose other levels they do not.
C28_Witness ==
    /\ ret.op = "reconstruct_all"
    /\ OptionsOr(ret.options) = ReconstructOptions(NoDepth, TRUE)
    /\ checkpoint.coin = "BTC"
    /\ Len(ret.value) = 4
    /\ Untouched(checkpoint.bids, "bid", deltas) = {1, 2}
    /\ float(ret.value[1].spread) < 0

\* The position in ds of the delta that decides the level at (side, price):
\* of the deltas that touch it, the one of the largest sequence number and,
\* among those of that number, the last in ds.  0 when none touches it.
Deciding(ds, side, price) ==
    LET hits == { i \in 1..Len(ds) : Touches(ds[i], side, price) }
    IN  IF hits = { } THEN 0
        ELSE CHOOSE i \in hits :
                 \A j \in hits \ {i} :
                     \/ ds[j].sequence < ds[i].sequence
                     \/ ds[j].sequence = ds[i].sequence /\ j < i

\* The level of a snapshot side at a price, as Lookup gives a map's.
ListedAt(levels, price) ==
    LET At(l) == float(l.px) = price IN SelectSeq(levels, At)

\* The last snapshot of the last bulk call, when taken without a depth limit.
FinalSnapshots ==
    IF ret.op = "reconstruct_all" /\ OptionsOr(ret.options).depth = NoDepth THEN { Last(ret.value) }
    ELSE IF ret.op = "reconstruct_final" /\ depth = NoDepth THEN { ret.value }
    ELSE IF ret.op = "next" /\ gen.pc = "done" /\ depth = NoDepth THEN { Last(pulls) }
    ELSE { }

\* C30: in the final snapshot of a bulk replay, the level at a (side, price)
\* that deltas touch is the one set by the last in input order of the touching
\* deltas of the largest sequence number: absent if its size is 0, otherwise
\* of its size with an order count of 1.
C30_TiesInInputOrder ==
    \A snap \in FinalSnapshots :
        \A k \in 1..Len(deltas) :
            LET side  == BookName(deltas[k].side)
                price == deltas[k].price
                d     == deltas[Deciding(deltas, side, price)]
            IN  ListedAt(SideOf(snap, side), price) =
                    IF d.size = 0 THEN << >>
                    ELSE << PriceLevel(str(price), str(d.size), 1) >>

\* reconstruct_final over two deltas of sequence 2 on bid 100.0, the removal
\* later in the input although earlier by timestamp, then a delta of
\* sequence 1.
C30_Witness ==
    /\ ret.op = "reconstruct_final"
    /\ depth = NoDepth
    /\ Len(deltas) = 3
    /\ deltas[1].sequence = 2 /\ deltas[1].size # 0
    /\ deltas[2].sequence = 2 /\ deltas[2].size = 0
    /\ deltas[3].sequence = 1
    /\ ListedAt(ret.value.bids, 400) = << >>

\* C26: no bulk replay call and no pull from a generator changes the
\* caller's checkpoint or delta collection (the deltas are sorted on a copy),
\* and a suspended generator still refers to them as given.
C26_InputsNotMutated ==
    [][/\ checkpoint' = checkpoint
       /\ deltas' = deltas
       /\ gen'.pc # "none" => (gen'.checkpoint = checkpoint /\ gen'.deltas = deltas)]_vars

\* A generator has replayed three deltas handed over out of order, over the
\* store the checkpoint was copied into.
C26_Witness ==
    /\ gen.pc = "done"
    /\ Len(deltas) = 3
    /\ ~IsSortedBySequence(deltas)
    /\ self.bids # LoadLevels(EmptyDict, checkpoint.bids)


\* C25: a get_snapshot call, whatever the depth, leaves the instance's five
\* attributes and every object that existed before the call as they were:
\* both side maps hold the same levels after it as before it.
C25_SnapshotReadOnly ==
    [][ ret'.op = "get_snapshot" =>
            /\ self' = self
            /\ SubSeq(heap', 1, Len(heap)) = heap
            /\ StoreOf(heap', self') = StoreOf(heap, self) ]_vars

\* The second snapshot in a row, at depth 1, of a book of two asks.
C25_Witness ==
    /\ ret.op = "get_snapshot"
    /\ ret.depth = SomeDepth(1)
    /\ Len(held) = 2
    /\ held[1].seen = held[2].seen
    /\ Cardinality(DOMAIN StoreOf(heap, self).asks) = 2

-----------------------------------------------------------------------------
(* detect_gaps on an instance in use (specification GapCallSpec).          *)

\* C27: a detect_gaps call returns a list of pairs that the sequence numbers
\* of the deltas passed in determine, whatever state the instance and a
\* suspended generator are in, and it changes neither the instance nor the
\* generator nor the deltas or their order.
C27_DetectGapsStateless ==
    [][ ret'.op = "detect_gaps" =>
            /\ ret'.value = IF Len(deltas) < 2 THEN << >>
                            ELSE ExpectedGaps(SequencesOf(deltas))
            /\ \A i \in 1..Len(ret'.value) :
                   ret'.value[i] \in Int \X Int
            /\ self' = self
            /\ gen' = gen
            /\ pulls' = pulls
            /\ deltas' = deltas
            /\ checkpoint' = checkpoint ]_vars

\* detect_gaps has reported a gap and a repeat for deltas handed over out of
\* order, between two pulls from a generator that had applied one of them.
C27_Witness ==
    /\ ret.op = "detect_gaps"
    /\ ~IsSortedBySequence(deltas)
    /\ Len(ret.value) = 2
    /\ gen.pc \notin {"none", "start", "done"}
    /\ self.last_sequence > 0

-----------------------------------------------------------------------------
(* Two instances in one process (specification PairSpec): self and peer,   *)
(* each constructed once, then used in any interleaving of whole calls.    *)
(* A snapshot is read by its caller and dropped, so the objects allocated  *)
(* for it do not stay on the heap.                                         *)

\* Most objects the two instances allocate in one run.
MaxPairHeap == 9

\* An __init__ that binds the first instance's dicts again instead of
\* building new ones, as dicts held by the class would be.
HeapNewInstanceSharingDicts(h) ==
    IF h = << >>
    THEN [heap |-> << Object("dict", EmptyDict), Object("dict", EmptyDict) >>,
          self |-> [bids |-> 1, asks |-> 2, coin |-> "",
                    last_timestamp |-> "", last_sequence |-> 0]]
    ELSE [heap |-> h,
          self |-> [bids |-> 1, asks |-> 2, coin |-> "",
                    last_timestamp |-> "", last_sequence |-> 0]]

\* __init__ in a process that has allocated h: two new empty dicts.
HeapNewInstance(h) ==
    [heap |-> h \o << Object("dict", EmptyDict), Object("dict", EmptyDict) >>,
     self |-> [bids |-> Len(h) + 1, asks |-> Len(h) + 2, coin |-> "",
               last_timestamp |-> "", last_sequence |-> 0]]

Instances == {"self", "peer"}

PairInit ==
    /\ \E first \in { HeapNewInstance(<< >>) } :
           \E second \in { HeapNewInstance(first.heap) } :
               /\ self = first.self
               /\ peer = second.self
               /\ heap = second.heap
    /\ held = << >>
    /\ ret = [op |-> "__init__"]
    /\ checkpoint = OrderBook("", "", << >>, << >>)
    /\ deltas = << >>
    /\ depth = NoDepth
    /\ gen = NoGen
    /\ pulls = << >>
    /\ applied = 0
    /\ calls = << >>
    /\ gen2 = NoGen

PairInitialize ==
    \E who \in Instances, cp \in HeapCheckpoints :
        \E r \in { heap_initialize(heap, IF who = "self" THEN self ELSE peer, cp) } :
            /\ Len(r.heap) <= MaxPairHeap
            /\ heap' = r.heap
            /\ self' = IF who = "self" THEN r.self ELSE self
            /\ peer' = IF who = "peer" THEN r.self ELSE peer
            /\ ret' = [op |-> "initialize", who |-> who, checkpoint |-> cp]
            /\ UNCHANGED <<held, checkpoint, deltas, depth, gen, pulls, applied, calls, gen2>>

PairApplyDelta ==
    \E who \in Instances, delta \in HeapDeltas :
        \E r \in { heap_apply_delta(heap, IF who = "self" THEN self ELSE peer, delta) } :
            /\ Len(r.heap) <= MaxPairHeap
            /\ heap' = r.heap
            /\ self' = IF who = "self" THEN r.self ELSE self
            /\ peer' = IF who = "peer" THEN r.self ELSE peer
            /\ ret' = [op |-> "apply_delta", who |-> who, delta |-> delta]
            /\ UNCHANGED <<held, checkpoint, deltas, depth, gen, pulls, applied, calls, gen2>>

PairGetSnapshot ==
    \E who \in Instances, d \in HeapDepths :
        \E r \in { heap_get_snapshot(heap, IF who = "self" THEN self ELSE peer, d) } :
            /\ heap' = SubSeq(r.heap, 1, Len(heap))
            /\ ret' = [op |-> "get_snapshot", who |-> who, depth |-> d,
                       value |-> SnapshotAt(r.heap, r.ref)]
            /\ UNCHANGED <<self, peer, held, checkpoint, deltas, depth, gen, pulls,
                           applied, calls, gen2>>

PairNext == PairInitialize \/ PairApplyDelta \/ PairGetSnapshot

PairSpec == PairInit /\ [][PairNext]_vars

\* C22: the two instances share no object, and in every interleaving each
\* call on one of them leaves the maps, symbol, timestamp and last_sequence of
\* the other as they were and does to its own instance, and returns, what the
\* call does on that instance's state alone.
C22_InstancesIndependent ==
    /\ [](StoreObjects(heap, self) \cap StoreObjects(heap, peer) = { })
    /\ [][ \A who \in Instances :
             LET mine   == StoreOf(heap, IF who = "self" THEN self ELSE peer)
                 mine1  == StoreOf(heap', IF who = "self" THEN self' ELSE peer')
                 other  == StoreOf(heap, IF who = "self" THEN peer ELSE self)
                 other1 == StoreOf(heap', IF who = "self" THEN peer' ELSE self')
             IN  ret'.who = who =>
                     /\ other1 = other
                     /\ ret'.op = "initialize" => mine1 = initialize(mine, ret'.checkpoint)
                     /\ ret'.op = "apply_delta" => mine1 = apply_delta(mine, ret'.delta)
                     /\ ret'.op = "get_snapshot" =>
                            /\ mine1 = mine
                            /\ ret'.value = get_snapshot(mine, ret'.depth) ]_vars

\* A snapshot of one instance, holding BTC with its bid removed by a delta,
\* while the other holds ETH with an ask set by a delta.
C22_Witness ==
    /\ ret.op = "get_snapshot"
    /\ ret.who = "self"
    /\ StoreOf(heap, self).coin = "BTC"
    /\ StoreOf(heap, self).bids = EmptyDict
    /\ StoreOf(heap, self).last_sequence = 2
    /\ StoreOf(heap, peer).coin = "ETH"
    /\ 406 \in DOMAIN StoreOf(heap, peer).asks
    /\ StoreOf(heap, peer).asks[406].orders = 1

-----------------------------------------------------------------------------
(* OrderBookResource (resources/orderbook.py): the calls that fetch tick    *)
(* data and hand it to a reconstructor.  The HTTP response is an input: a  *)
(* JSON object, modelled by a record of the keys it has.  Its "checkpoint" *)
(* is << >> for null and <<c>> for the object c; a missing "error" or      *)
(* "message" reads as None.                                                *)

\* Most deltas in one response.
MaxWireDeltas == 2

TickData(cp, ds) == [checkpoint |-> cp, deltas |-> ds]

\* dict.get(key, default)
DataGet(data, key, default) == IF key \in DOMAIN data THEN data[key] ELSE default

\* a or b, on Optional[str]: None and "" are false.
StrOr(a, b) == IF a = None \/ a = "" THEN b ELSE a

TierMessage ==
    "Tick-level orderbook data requires Enterprise tier. " \o
    "Upgrade your subscription or use a different granularity."

\* The datetime pydantic parses from "YYYY-MM-DDTHH:MM:SSZ".
ParseDatetime(iso) ==
    "datetime(" \o SubSeq(iso, 1, 10) \o " " \o SubSeq(iso, 12, 19) \o "+00:00)"

\* OrderBook.model_validate on the checkpoint object of a response.
model_validate(c) ==
    OrderBook(c.coin, ParseDatetime(c.timestamp),
              [i \in 1..Len(c.bids) |-> PriceLevel(c.bids[i].px, c.bids[i].sz, c.bids[i].n)],
              [i \in 1..Len(c.asks) |-> PriceLevel(c.asks[i].px, c.asks[i].sz, c.asks[i].n)])

\* A history_tick that takes a response without checkpoint for an empty book.
history_tickEmptyBook(data) ==
    IF "checkpoint" \notin DOMAIN data \/ data["checkpoint"] = << >>
    THEN [raised |-> FALSE,
          value  |-> TickData(OrderBook("", "datetime(1970-01-01 00:00:00+00:00)",
                                        << >>, << >>),
                              << >>)]
    ELSE LET ds == DataGet(data, "deltas", << >>)
         IN  [raised |-> FALSE,
              value  |-> TickData(
                  model_validate(data["checkpoint"][1]),
                  [i \in 1..Len(ds) |->
                      OrderbookDelta(ds[i].timestamp, ds[i].side, float(ds[i].price),
                                     float(ds[i].size), ds[i].sequence)])]

\* history_tick on the response data: a ValueError, or the TickData.
history_tick(data) ==
    IF "checkpoint" \notin DOMAIN data \/ data["checkpoint"] = << >>
    THEN [raised |-> TRUE,
          error  |-> StrOr(DataGet(data, "error", None),
                           StrOr(DataGet(data, "message", None), TierMessage))]
    ELSE LET ds == DataGet(data, "deltas", << >>)
         IN  [raised |-> FALSE,
              value  |-> TickData(
                  model_validate(data["checkpoint"][1]),
                  [i \in 1..Len(ds) |->
                      OrderbookDelta(ds[i].timestamp, ds[i].side, float(ds[i].price),
                                     float(ds[i].size), ds[i].sequence)])]

\* The reconstructor methods reconstruct_all invokes on n deltas, in order.
RECURSIVE LoopCalls(_, _)
LoopCalls(n, emit_all) ==
    IF n = 0 THEN << >>
    ELSE LoopCalls(n - 1, emit_all) \o
         (IF emit_all THEN << "apply_delta", "get_snapshot" >> ELSE << "apply_delta" >>)

CallsOfReconstructAll(n, emit_all) ==
    << "initialize" >> \o (IF emit_all THEN << "get_snapshot" >> ELSE << >>) \o
    LoopCalls(n, emit_all) \o (IF emit_all THEN << >> ELSE << "get_snapshot" >>)

\* history_reconstructed: the outcome, the reconstructor it built (if it got
\* that far) and the methods it invoked on it.
history_reconstructed(data, d, emit_all) ==
    LET tick_data == history_tick(data)
    IN  IF tick_data.raised
        THEN [raised |-> TRUE, error |-> tick_data.error, self |-> NoInstance,
              calls |-> << >>]
        ELSE LET r == reconstruct_all(NewReconstructor, tick_data.value.checkpoint,
                                      tick_data.value.deltas,
                                      << ReconstructOptions(d, emit_all) >>)
             IN  [raised |-> FALSE, value |-> r.ret, self |-> r.self,
                  calls |-> CallsOfReconstructAll(Len(tick_data.value.deltas), emit_all)]

\* iterate_reconstructed is a generator function: the call returns a generator
\* suspended before history_tick.
iterate_reconstructed(data, d) ==
    [pc |-> "start", data |-> data, depth |-> d, inner |-> NoGen]

\* The methods one resumption of the reconstructor's generator invokes.
GenCalls(g, r) ==
    IF g.pc = "start" THEN << "initialize", "get_snapshot" >>
    ELSE IF r.applied = 1 THEN << "apply_delta", "get_snapshot" >>
    ELSE << >>

\* next() on the generator of iterate_reconstructed; s is the reconstructor
\* of its frame.
ResourceGenNext(s, g) ==
    CASE g.pc = "start" ->
            LET tick_data == history_tick(g.data)
            IN  IF tick_data.raised
                THEN [raised |-> TRUE, error |-> tick_data.error, stop |-> FALSE,
                      self |-> s, gen |-> [g EXCEPT !.pc = "done"], calls |-> << >>]
                ELSE LET inner == iterate(tick_data.value.checkpoint,
                                          tick_data.value.deltas, g.depth)
                         r     == GenNext(NewReconstructor, inner)
                     IN  [raised |-> FALSE, stop |-> FALSE, value |-> r.ret,
                          self |-> r.self,
                          gen |-> [g EXCEPT !.pc = "delegating", !.inner = r.gen],
                          calls |-> GenCalls(inner, r)]
      [] g.pc = "delegating" ->
            LET r == GenNext(s, g.inner)
            IN  IF r.stop
                THEN [raised |-> FALSE, stop |-> TRUE, self |-> r.self,
                      gen |-> [g EXCEPT !.pc = "done", !.inner = r.gen],
                      calls |-> << >>]
                ELSE [raised |-> FALSE, stop |-> FALSE, value |-> r.ret,
                      self |-> r.self, gen |-> [g EXCEPT !.inner = r.gen],
                      calls |-> GenCalls(g.inner, r)]
      [] g.pc = "done" ->
            [raised |-> FALSE, stop |-> TRUE, self |-> s, gen |-> g, calls |-> << >>]

WireCheckpoints ==
    { [coin |-> "BTC", timestamp |-> "2024-01-01T00:00:00Z",
       bids |-> << [px |-> "100", sz |-> "1", n |-> 3] >>,
       asks |-> << [px |-> "102", sz |-> "1", n |-> 1] >>],
      [coin |-> "ETH", timestamp |-> "2024-01-01T00:00:00Z",
       bids |-> << >>,
       asks |-> << [px |-> "102", sz |-> "1", n |-> 1],
                   [px |-> "101.5", sz |-> "2.50", n |-> 5] >>] }

WireDeltas ==
    { [timestamp |-> 1000, side |-> "bid", price |-> "100", size |-> "1", sequence |-> 2],
      [timestamp |-> 1500, side |-> "ask", price |-> "102.0", size |-> "0", sequence |-> 1] }

\* Responses with tick data, and responses without: no "checkpoint" key or a
\* null checkpoint, with or without an "error" or "message" text, one of them
\* with deltas all the same.
Responses ==
    { [checkpoint |-> << c >>, deltas |-> ds] :
          c \in WireCheckpoints, ds \in DeltaLists(WireDeltas, MaxWireDeltas) }
    \cup { [checkpoint |-> << c >>] : c \in WireCheckpoints }
    \cup { [error |-> "Forbidden"],
           [message |-> "Upgrade required"],
           [error |-> "", message |-> "Upgrade required"],
           [error |-> "", message |-> ""],
           [checkpoint |-> << >>],
           [checkpoint |-> << >>, error |-> "Forbidden", message |-> "Upgrade required"],
           [deltas |-> << [timestamp |-> 1000, side |-> "bid", price |-> "100",
                           size |-> "1", sequence |-> 2] >>] }

ResourceInit ==
    /\ self = NoInstance
    /\ ret = [op |-> "__init__"]
    /\ checkpoint = OrderBook("", "", << >>, << >>)
    /\ deltas = << >>
    /\ depth = NoDepth
    /\ gen = NoGen
    /\ pulls = << >>
    /\ applied = 0
    /\ heap = << >>
    /\ held = << >>
    /\ peer = NoInstance
    /\ calls = << >>
    /\ gen2 = NoGen

HistoryTick ==
    \E data \in Responses :
        /\ ret' = [op |-> "history_tick", data |-> data, result |-> history_tick(data)]
        /\ self' = NoInstance
        /\ calls' = << >>
        /\ gen' = NoGen
        /\ pulls' = << >>
        /\ UNCHANGED <<checkpoint, deltas, depth, applied, heap, held, peer, gen2>>

HistoryReconstructed ==
    \E data \in Responses, d \in ReplayDepths, emit_all \in BOOLEAN :
        LET r == history_reconstructed(data, d, emit_all)
        IN  /\ ret' = [op |-> "history_reconstructed", data |-> data,
                       result |-> IF r.raised
                                  THEN [raised |-> TRUE, error |-> r.error]
                                  ELSE [raised |-> FALSE, value |-> r.value]]
            /\ self' = r.self
            /\ calls' = r.calls
            /\ gen' = NoGen
            /\ pulls' = << >>
            /\ UNCHANGED <<checkpoint, deltas, depth, applied, heap, held, peer, gen2>>

IterateReconstructed ==
    \E data \in Responses, d \in ReplayDepths :
        /\ gen' = iterate_reconstructed(data, d)
        /\ ret' = [op |-> "iterate_reconstructed", data |-> data]
        /\ self' = NoInstance
        /\ calls' = << >>
        /\ pulls' = << >>
        /\ UNCHANGED <<checkpoint, deltas, depth, applied, heap, held, peer, gen2>>

ResourcePull ==
    /\ gen.pc # "none"
    /\ \E r \in { ResourceGenNext(self, gen) } :
           /\ ret' = [op |-> "next", data |-> gen.data,
                      result |-> IF r.raised
                                 THEN [raised |-> TRUE, stop |-> FALSE, error |-> r.error]
                                 ELSE IF r.stop
                                 THEN [raised |-> FALSE, stop |-> TRUE]
                                 ELSE [raised |-> FALSE, stop |-> FALSE, value |-> r.value]]
           /\ self' = r.self
           /\ gen' = r.gen
           /\ calls' = calls \o r.calls
           /\ pulls' = IF r.raised \/ r.stop THEN pulls ELSE Append(pulls, r.value)
    /\ UNCHANGED <<checkpoint, deltas, depth, applied, heap, held, peer, gen2>>

ResourceNext == HistoryTick \/ HistoryReconstructed \/ IterateReconstructed \/ ResourcePull

ResourceSpec == ResourceInit /\ [][ResourceNext]_vars

NoCheckpoint(data) == "checkpoint" \notin DOMAIN data \/ data["checkpoint"] = << >>

\* The text the error carries: the response's "error" if it has one that is
\* not empty, else its "message" likewise, else the tier message.
ErrorText(data) ==
    IF "error" \in DOMAIN data /\ data["error"] # "" THEN data["error"]
    ELSE IF "message" \in DOMAIN data /\ data["message"] # "" THEN data["message"]
    ELSE TierMessage

\* C24: when the response has no checkpoint, or a null one, history_tick
\* raises with a message that is not empty; history_reconstructed fails with
\* that error, and so does the first pull from iterate_reconstructed's
\* generator, which is then finished and yields nothing; in neither is a
\* reconstructor built or initialize, apply_delta or get_snapshot invoked.
C24_TierErrorBeforeCore ==
    /\ []((ret.op \in {"history_tick", "history_reconstructed"} /\ NoCheckpoint(ret.data)) =>
              /\ ret.result.raised
              /\ ret.result.error \notin {None, ""}
              /\ ret.result.error = ErrorText(ret.data)
              /\ self = NoInstance
              /\ calls = << >>)
    /\ []((gen.pc # "none" /\ NoCheckpoint(gen.data)) =>
              /\ self = NoInstance
              /\ calls = << >>
              /\ pulls = << >>
              /\ gen.pc \in {"start", "done"}
              /\ ret.op = "next" => (ret.result.raised \/ ret.result.stop))
    /\ [][ (gen.pc = "start" /\ NoCheckpoint(gen.data) /\ ret'.op = "next") =>
               /\ ret'.result.raised
               /\ ret'.result.error = ErrorText(gen.data)
               /\ gen'.pc = "done" ]_vars

\* The first pull from iterate_reconstructed's generator has raised the
\* default message on a response whose error and message are empty.
C24_Witness ==
    /\ ret.op = "next"
    /\ ret.data = [error |-> "", message |-> ""]
    /\ ret.result.raised
    /\ ret.result.error = TierMessage
    /\ gen.pc = "done"

-----------------------------------------------------------------------------
(* Depth truncation and the derived fields.                                *)

\* C36: for every positive depth k, mid_price, spread and spread_bps of
\* get_snapshot(depth=k) are those of the unlimited snapshot of the same
\* book, and the first bid and first ask listed are the same levels: the
\* truncation keeps the best bid and the best ask.
C36_DepthKeepsDerivedFields ==
    (ret.op = "get_snapshot" /\ ret.depth # NoDepth /\ ret.depth[1] >= 1) =>
        LET v         == ret.value
            unlimited == get_snapshot(self, NoDepth)
        IN  /\ v.mid_price = unlimited.mid_price
            /\ v.spread = unlimited.spread
            /\ v.spread_bps = unlimited.spread_bps
            /\ unlimited.bids # << >> =>
                   /\ v.bids # << >>
                   /\ v.bids[1] = unlimited.bids[1]
                   /\ float(v.bids[1].px) = Highest(DOMAIN self.bids)
            /\ unlimited.asks # << >> =>
                   /\ v.asks # << >>
                   /\ v.asks[1] = unlimited.asks[1]
                   /\ float(v.asks[1].px) = Lowest(DOMAIN self.asks)

\* A snapshot of depth 1 of a book with more than one level on each side,
\* which carries the three derived fields.
C36_Witness ==
    /\ ret.op = "get_snapshot"
    /\ ret.depth = SomeDepth(1)
    /\ Cardinality(DOMAIN self.bids) >= 2
    /\ Cardinality(DOMAIN self.asks) >= 2
    /\ Len(ret.value.bids) = 1
    /\ Len(ret.value.asks) = 1
    /\ ret.value.spread_bps # None

-----------------------------------------------------------------------------
(* The frame of apply_delta (specification Spec).                          *)

\* The prices at which two side maps differ: held by one only, or held by
\* both with different levels.
ChangedPrices(before, after) ==
    { k \in (DOMAIN before) \cup (DOMAIN after) : Lookup(before, k) # Lookup(after, k) }

\* C32: apply_delta changes at most one entry of the store: in the side map
\* its side tag selects (bids for "bid", asks otherwise) only the level at
\* the delta's price is inserted, overwritten or removed; every other price
\* of that side, the whole opposite side map, also at the delta's price,
\* and the symbol stay as they were.
C32_OneEntryFrame ==
    [][ ret'.op = "apply_delta" =>
            LET d       == ret'.delta
                before  == BookOf(self, d.side)
                after   == BookOf(self', d.side)
                changed == ChangedPrices(self.bids, self'.bids)
                               \cup ChangedPrices(self.asks, self'.asks)
            IN  /\ ChangedPrices(before, after) \subseteq {d.price}
                /\ Cardinality(changed) <= 1
                /\ \A k \in (DOMAIN before) \ {d.price} :
                       k \in DOMAIN after /\ after[k] = before[k]
                /\ (DOMAIN after) \ {d.price} = (DOMAIN before) \ {d.price}
                /\ IF d.side = "bid" THEN self'.asks = self.asks
                                     ELSE self'.bids = self.bids
                /\ Lookup(BookOf(self', OtherSide(d.side)), d.price)
                       = Lookup(BookOf(self, OtherSide(d.side)), d.price)
                /\ self'.coin = self.coin ]_vars

\* A delta has just overwritten a level at a price the opposite side holds
\* too, with another size, on a side that holds other prices as well.
C32_Witness ==
    /\ ret.op = "apply_delta"
    /\ ret.delta.size # 0
    /\ ret.old # << >>
    /\ ret.old[1].size # ret.delta.size
    /\ Cardinality(DOMAIN BookOf(self, ret.delta.side)) >= 2
    /\ ret.delta.price \in DOMAIN BookOf(self, OtherSide(ret.delta.side))
    /\ BookOf(self, OtherSide(ret.delta.side))[ret.delta.price].size # ret.delta.size

\* A size-0 delta for a price its side map does not hold.
RemovesNothing(s, d) == d.size = 0 /\ d.price \notin DOMAIN BookOf(s, d.side)

\* C33: a size-0 delta for a (side, price) that is absent leaves both side
\* maps as they were and is recorded all the same: last_sequence and
\* last_timestamp become the delta's, so a snapshot taken after it is the
\* snapshot taken before it with the delta's sequence and timestamp.
C33_NoOpRemovalIsRecorded ==
    [][ /\ (ret'.op = "apply_delta" /\ RemovesNothing(self, ret'.delta)) =>
               LET d == ret'.delta
               IN  /\ self'.bids = self.bids
                   /\ self'.asks = self.asks
                   /\ self'.last_sequence = d.sequence
                   /\ self'.last_timestamp = IsoTimestamp(d.timestamp)
                   /\ \A k \in Depths :
                          get_snapshot(self', k)
                              = [get_snapshot(self, k)
                                     EXCEPT !.sequence = d.sequence,
                                            !.timestamp = IsoTimestamp(d.timestamp)]
        /\ (ret.op = "get_snapshot" /\ ret'.op = "apply_delta"
                /\ RemovesNothing(self, ret'.delta)) =>
               get_snapshot(self', ret.depth)
                   = [ret.value EXCEPT !.sequence = ret'.delta.sequence,
                                       !.timestamp = IsoTimestamp(ret'.delta.timestamp)]
      ]_vars

\* A size-0 delta has found no level at its price on its side, which the
\* opposite side holds, in a book with levels on both sides; the book now
\* carries the delta's sequence and timestamp.
C33_Witness ==
    /\ ret.op = "apply_delta"
    /\ ret.delta.size = 0
    /\ ret.old = << >>
    /\ self.bids # EmptyDict
    /\ self.asks # EmptyDict
    /\ ret.delta.price \in DOMAIN BookOf(self, OtherSide(ret.delta.side))
    /\ self.last_sequence = 2
    /\ self.last_timestamp = "1970-01-01T00:00:01.500000Z"

-----------------------------------------------------------------------------
(* Two apply_delta calls in either order (specification Spec).             *)

\* The store s with the entry of d's (side, price) put back to old, the
\* result of dict.get before d was applied.
PutBack(s, d, old) ==
    LET book     == BookOf(s, d.side)
        restored == IF old = << >> THEN DictPop(book, d.price)
                                   ELSE DictSet(book, d.price, old[1])
    IN  [s EXCEPT !.bids = IF d.side = "bid" THEN restored ELSE @,
                  !.asks = IF d.side = "bid" THEN @ ELSE restored]

SameKey(d1, d2) == BookName(d1.side) = BookName(d2.side) /\ d1.price = d2.price

\* What a delta leaves at its (side, price): nothing for size 0.
LevelOf(d) == IF d.size = 0 THEN << >> ELSE << InternalLevel(d.price, d.size, 1) >>

\* C37: of two apply_delta calls made one after the other, on different
\* (side, price) pairs, the bid and ask maps are the same as if the calls
\* had been made in the other order from the same store; on the same
\* (side, price) the level is the one the later call leaves; in both cases
\* last_sequence and last_timestamp are those of the later call.
C37_CommuteOnDistinctKeys ==
    [][ (ret.op = "apply_delta" /\ ret'.op = "apply_delta") =>
            LET first   == ret.delta
                second  == ret'.delta
                start   == PutBack(self, first, ret.old)
                swapped == apply_delta(apply_delta(start, second), first)
                \* the maps of the other order: those of this order, except
                \* that on one key the level is the one the first delta leaves
                maps    == IF SameKey(first, second)
                           THEN PutBack(self', first, LevelOf(first))
                           ELSE self'
            IN  /\ apply_delta(start, first) = self
                /\ Lookup(BookOf(self', second.side), second.price) = LevelOf(second)
                /\ self'.last_sequence = second.sequence
                /\ self'.last_timestamp = IsoTimestamp(second.timestamp)
                /\ swapped = [maps EXCEPT !.last_sequence = first.sequence,
                                          !.last_timestamp = IsoTimestamp(first.timestamp)]
      ]_vars

\* The book after two deltas on different keys: an ask inserted at 101.5 by
\* an earlier delta and, last, a bid inserted at 100 over a level the
\* checkpoint gave, with a sequence below the stream's highest.
C37_Witness ==
    /\ ret.op = "apply_delta"
    /\ ret.delta = OrderbookDelta(1000, "bid", 400, 4, 1)
    /\ ret.old # << >>
    /\ ret.old[1].orders = 3
    /\ Lookup(self.asks, 406) = << InternalLevel(406, 4, 1) >>
    /\ Lookup(self.bids, 400) = << InternalLevel(400, 4, 1) >>
    /\ self.last_sequence = 1

-----------------------------------------------------------------------------
(* detect_gaps: the empty result and repeated sequence numbers (GapSpec).  *)

\* The numbers of qs are consecutive integers once put in ascending order:
\* no number twice, and the largest is the smallest plus the count less one.
Consecutive(qs) ==
    LET nums == Range(qs)
    IN  /\ Cardinality(nums) = Len(qs)
        /\ \A lo, hi \in nums :
               ((\A q \in nums : lo <= q) /\ (\A q \in nums : q <= hi)) =>
                   hi - lo = Len(qs) - 1

Occurrences(qs, q) == Cardinality({ i \in 1..Len(qs) : qs[i] = q })

\* C38: detect_gaps returns the empty list exactly when fewer than two
\* deltas are given or the sequence numbers, sorted, are consecutive
\* integers; when all sequence numbers are distinct every reported pair has
\* expected < actual; a sequence number s given more than once is reported
\* as the pair (s + 1, s), once for each repeat.
C38_EmptyIffConsecutive ==
    ret.op = "detect_gaps" =>
        LET qs == SequencesOf(deltas)
            v  == ret.value
        IN  /\ v = << >> <=> (Len(qs) < 2 \/ Consecutive(qs))
            /\ Cardinality(Range(qs)) = Len(qs) =>
                   \A i \in 1..Len(v) : v[i][1] < v[i][2]
            /\ \A s \in Range(qs) :
                   Cardinality({ i \in 1..Len(v) : v[i] = <<s + 1, s>> })
                       = Occurrences(qs, s) - 1
            /\ \A i \in 1..Len(v) :
                   v[i][1] > v[i][2] => (v[i][1] = v[i][2] + 1 /\ Occurrences(qs, v[i][2]) >= 2)

\* detect_gaps has reported the repeat of 3 among the sequences 3,1,3,2,
\* which are otherwise consecutive.
C38_Witness ==
    /\ ret.op = "detect_gaps"
    /\ SequencesOf(deltas) = <<3, 1, 3, 2>>
    /\ ret.value = << <<4, 3>> >>

-----------------------------------------------------------------------------
(* The call of iterate and the first pull (specification ReplaySpec).      *)

\* C31: the call iterate(checkpoint, deltas, depth) runs nothing of the
\* body: side maps, symbol, timestamp and last_sequence of the instance are
\* after the call what they were before it, and so is its snapshot; it is
\* the first pull that runs initialize, and it returns the snapshot of the
\* checkpoint state.
C31_CallDoesNoWork ==
    [][ /\ ret'.op = "iterate" =>
               /\ self'.bids = self.bids
               /\ self'.asks = self.asks
               /\ self'.coin = self.coin
               /\ self'.last_timestamp = self.last_timestamp
               /\ self'.last_sequence = self.last_sequence
               /\ get_snapshot(self', depth) = get_snapshot(self, depth)
               /\ gen'.pc = "start"
               /\ pulls' = << >>
        /\ (gen.pc = "start" /\ ret'.op = "next") =>
               /\ self' = initialize(self, checkpoint)
               /\ self'.coin = checkpoint.coin
               /\ self'.last_timestamp = checkpoint.timestamp
               /\ self'.last_sequence = 0
               /\ ~ret'.stop
               /\ ret'.value = get_snapshot(initialize(NewReconstructor, checkpoint), depth)
               /\ gen'.pc = "yield_initial"
      ]_vars

\* iterate has been called, and nothing pulled, on an instance that an
\* earlier replay left with deltas applied: it is not in the checkpoint
\* state.
C31_Witness ==
    /\ ret.op = "iterate"
    /\ gen.pc = "start"
    /\ pulls = << >>
    /\ self.last_sequence # 0
    /\ self.bids # initialize(NewReconstructor, checkpoint).bids
    /\ Len(deltas) >= 1

-----------------------------------------------------------------------------
(* A generator of iterate left suspended (specification ReplaySpec).       *)

\* The generator is suspended at a yield: at least one snapshot has been
\* pulled and the generator has not been exhausted.
MidStream == gen.pc \in {"yield_initial", "yield_delta"}

\* C34: while a generator of iterate stays suspended after k + 1 pulls, the
\* instance's get_snapshot is the last snapshot pulled, the state after the
\* first k sorted deltas; initialize, reconstruct_all and reconstruct_final
\* called on the instance in that state give what they give on a fresh
\* instance, and so does the bulk replay that is then made.
C34_AbandonedIterateIsSafe ==
    /\ [](MidStream =>
            LET k     == Len(pulls) - 1
                fresh == NewReconstructor
            IN  /\ 0 <= k /\ k <= Len(deltas)
                /\ get_snapshot(self, depth) = Last(pulls)
                /\ Last(pulls) = AllOf(checkpoint, deltas,
                                       << ReconstructOptions(depth, TRUE) >>)[k + 1]
                /\ \A cp \in ReplayCheckpoints :
                       /\ initialize(self, cp) = initialize(fresh, cp)
                       /\ reconstruct_final(self, cp, deltas, depth)
                              = reconstruct_final(fresh, cp, deltas, depth)
                       /\ \A e \in BOOLEAN :
                              reconstruct_all(self, cp, deltas, << ReconstructOptions(depth, e) >>)
                                  = reconstruct_all(fresh, cp, deltas,
                                                    << ReconstructOptions(depth, e) >>))
    /\ [][ /\ (MidStream /\ ret'.op = "reconstruct_all") =>
                 /\ ret'.value = AllOf(checkpoint, deltas, ret'.options)
                 /\ self' = reconstruct_all(NewReconstructor, checkpoint, deltas,
                                            ret'.options).self
                 /\ gen'.pc = "none"
           /\ (MidStream /\ ret'.op = "reconstruct_final") =>
                 /\ ret'.value = FinalOf(checkpoint, deltas, depth)
                 /\ self' = reconstruct_final(NewReconstructor, checkpoint, deltas,
                                              depth).self
                 /\ gen'.pc = "none"
         ]_vars

\* Two of the four snapshots of an iteration over three deltas have been
\* pulled: the generator is suspended with one delta applied, which changed
\* the bids of the checkpoint state, and two still to come.
C34_Witness ==
    /\ MidStream
    /\ ret.op = "next"
    /\ Len(deltas) = 3
    /\ Len(pulls) = 2
    /\ self.last_sequence # 0
    /\ self.bids # initialize(NewReconstructor, checkpoint).bids
    /\ get_snapshot(self, depth) # FinalOf(checkpoint, deltas, depth)

-----------------------------------------------------------------------------
(* One instance shared by a generator of iterate and other callers: between *)
(* two pulls the caller may call apply_delta, initialize, reconstruct_all  *)
(* or reconstruct_final on the instance, or create and pull a second       *)
(* generator of iterate.  Every call runs to its return or to its next     *)
(* yield before another starts; gen stays suspended across the others.     *)
(* The other calls are made while gen is suspended at a yield.             *)

SharedPool ==
    { OrderbookDelta(1500, "bid", 400, 0, 2),
      OrderbookDelta(2500, "ask", 406, 4, 4) }

\* The checkpoint iterated, and the one of the direct initialize calls.
SharedCheckpoints == { cp \in ReplayCheckpoints : cp.coin = "BTC" }
OtherCheckpoints == { cp \in ReplayCheckpoints : cp.coin = "ETH" }

\* The delta of the direct apply_delta calls.
SharedDeltas == { OrderbookDelta(3000, "bid", 400, 8, 7) }

SharedInit ==
    /\ self = NewReconstructor
    /\ ret = [op |-> "__init__"]
    /\ checkpoint \in SharedCheckpoints
    /\ deltas \in DeltaLists(SharedPool, MaxSharedDeltas)
    /\ depth = NoDepth
    /\ gen = NoGen
    /\ pulls = << >>
    /\ applied = 0
    /\ heap = << >>
    /\ held = << >>
    /\ peer = NoInstance
    /\ calls = << >>
    /\ gen2 = NoGen

\* iterate is called once, on the new instance.
SharedIterate ==
    /\ gen = NoGen
    /\ gen' = iterate(checkpoint, deltas, depth)
    /\ ret' = [op |-> "iterate"]
    /\ pulls' = << >>
    /\ applied' = 0
    /\ UNCHANGED <<self, checkpoint, deltas, depth, heap, held, peer, calls, gen2>>

\* gen has yielded and has not been found exhausted.
Suspended == gen.pc \in {"yield_initial", "yield_delta"}

SharedApplyDelta ==
    \E delta \in SharedDeltas :
        /\ Suspended
        /\ self' = apply_delta(self, delta)
        /\ ret' = [op |-> "apply_delta", delta |-> delta,
                   old |-> Lookup(BookOf(self, delta.side), delta.price)]
        /\ UNCHANGED <<checkpoint, deltas, depth, gen, pulls, applied, heap, held, peer,
                       calls, gen2>>

SharedInitialize ==
    \E cp \in OtherCheckpoints :
        /\ Suspended
        /\ self' = initialize(self, cp)
        /\ ret' = [op |-> "initialize", checkpoint |-> cp]
        /\ UNCHANGED <<checkpoint, deltas, depth, gen, pulls, applied, heap, held, peer,
                       calls, gen2>>

\* reconstruct_all(checkpoint, deltas) with the default options.
SharedReconstructAll ==
    \E r \in { reconstruct_all(self, checkpoint, deltas, << >>) } :
        /\ Suspended
        /\ self' = r.self
        /\ ret' = [op |-> "reconstruct_all", options |-> << >>, value |-> r.ret]
        /\ UNCHANGED <<checkpoint, deltas, depth, gen, pulls, applied, heap, held, peer,
                       calls, gen2>>

SharedReconstructFinal ==
    \E r \in { reconstruct_final(self, checkpoint, deltas, depth) } :
        /\ Suspended
        /\ self' = r.self
        /\ ret' = [op |-> "reconstruct_final", value |-> r.ret]
        /\ UNCHANGED <<checkpoint, deltas, depth, gen, pulls, applied, heap, held, peer,
                       calls, gen2>>

\* A second call of iterate on the instance, with the same arguments.
SecondIterate ==
    /\ Suspended
    /\ gen2 = NoGen
    /\ gen2' = iterate(checkpoint, deltas, depth)
    /\ ret' = [op |-> "iterate", second |-> TRUE]
    /\ UNCHANGED <<self, checkpoint, deltas, depth, gen, pulls, applied, heap, held, peer,
                   calls>>

\* next() on the second generator.
SecondPull ==
    /\ gen2.pc # "none"
    /\ \E r \in { GenNext(self, gen2) } :
           /\ self' = r.self
           /\ gen2' = r.gen
           /\ ret' = [op |-> "next", second |-> TRUE, stop |-> r.stop, value |-> r.ret]
    /\ UNCHANGED <<checkpoint, deltas, depth, gen, pulls, applied, heap, held, peer, calls>>

SharedNext ==
    \/ SharedIterate
    \/ Pull
    \/ SharedApplyDelta
    \/ SharedInitialize
    \/ SharedReconstructAll
    \/ SharedReconstructFinal
    \/ SecondIterate
    \/ SecondPull

SharedSpec == SharedInit /\ [][SharedNext]_vars

\* The step is a pull from gen, the first generator.
PullOfGen == ret'.op = "next" /\ "second" \notin DOMAIN ret'

\* What gen yields at each pull when nothing else touches the instance.
AloneSnapshots == AllOf(checkpoint, deltas, << ReconstructOptions(depth, TRUE) >>)

\* C35: a generator of iterate works on the instance's store, not on a copy:
\* a pull that resumes it after a yield applies its next sorted delta to
\* the store as the calls made in between left it, and yields the snapshot
\* of that store; the first pull runs initialize on the store; the calls
\* made in between leave the generator where it was.
C35_GeneratorSharesStore ==
    [][ /\ (PullOfGen /\ gen.pc = "start") =>
               /\ self' = initialize(self, checkpoint)
               /\ ret'.value = get_snapshot(self', depth)
        /\ (PullOfGen /\ gen.pc \in {"yield_initial", "yield_delta"} /\ ~ret'.stop) =>
               LET delta == AscendingOrder(deltas)[Len(pulls)]
               IN  /\ self' = apply_delta(self, delta)
                   /\ ret'.value = get_snapshot(apply_delta(self, delta), depth)
                   /\ pulls' = Append(pulls, ret'.value)
        /\ (PullOfGen /\ ret'.stop) =>
               /\ self' = self
               /\ Len(pulls) = Len(deltas) + 1
        /\ (~PullOfGen /\ Suspended) =>
               /\ gen' = gen
               /\ pulls' = pulls
      ]_vars

\* A snapshot pulled from gen after other calls on the instance is not the
\* one gen yields at that position when run alone: it shows the store with
\* the other calls' effect.
C35_Witness ==
    /\ ret.op = "next"
    /\ "second" \notin DOMAIN ret
    /\ ~ret.stop
    /\ Len(pulls) >= 2
    /\ ret.value = Last(pulls)
    /\ ret.value = get_snapshot(self, depth)
    /\ ret.value # AloneSnapshots[Len(pulls)]
    /\ ret.value.sequence = AloneSnapshots[Len(pulls)].sequence

=============================================================================
